---- MODULE Spec2Model ----
(***************************************************************************)
(* State coordinator of the fosscord server (package serverstate): invite  *)
(* ledger, challenge-response handshake, admin signatures and the session  *)
(* directory.  Every exported method of State takes s.mu for its whole     *)
(* body, so each method is one atomic action.  Time is in whole seconds    *)
(* (the granularity of the RFC3339 strings the store keeps).  Random ids,  *)
(* challenges and tokens (crypto/rand) are fresh values from counters.     *)
(* Ed25519 is ideal: a signature is the pair (signing key, signed bytes)   *)
(* and SHA-256 is injective on the payloads it is applied to.  The store   *)
(* is reliable here: db.Exec and db.Query return no I/O error.             *)
(***************************************************************************)
EXTENDS Integers, Sequences, FiniteSets, TLC

VARIABLES
    serverCfg,    \* State.serverCfg: channels and admin keys, fixed by New
    now,          \* the server clock, time.Now().UTC() in seconds
    ticks,        \* how many times the clock has advanced
    invites,      \* table invites: id -> [AllowedClientPublicKey, UsedAt]
    challenges,   \* State.challenges: invite id -> pendingChallenge
    members,      \* table members: public key -> display name
    sessions,     \* table sessions: token -> [ClientPublicKey, ExpiresAt]
    nextChallenge,\* the next fresh 32-byte challenge
    nextToken,    \* the next fresh session token
    waiting,      \* FinishConnect calls blocked on s.mu: caller -> request
    returned,     \* what each caller's FinishConnect returned
    last,         \* the response of the most recent call
    issued,       \* history: the challenges BeginConnect issued per invite, in order
    minted,       \* history: tokens minted per invite by FinishConnect
    messages,     \* table messages, in rowid (insertion) order
    streams,      \* State.streams: channel id -> stream id -> buffered events
    nextStream,   \* State.nextStream
    cancels,      \* the subscriptions handed out: stream id -> Subscription
    closes,       \* history: how often close(ch) ran on each stream
    voice,        \* table voice_presence: client public key -> row
    reply,        \* what the most recent message or voice call returned
    published     \* history: how many events have been broadcast

vars == <<serverCfg, now, ticks, invites, challenges, members, sessions,
          nextChallenge, nextToken, waiting, returned, last, issued, minted,
          messages, streams, nextStream, cancels, closes, voice, reply, published>>

race == <<waiting, returned>>

\* What the message store, the event streams and the voice tracker keep.
room == <<messages, streams, nextStream, cancels, closes, voice, reply, published>>

----------------------------------------------------------------------------
\* Program constants, in seconds.
challengeTTL == 120
adminRequestMaxSkew == 120
sessionTTL == 2592000

\* Bounds of the model.
MaxInvites == 2
MaxChallenges == 2
MaxTicks == 1
MaxCallers == 2

----------------------------------------------------------------------------
\* Values.
NULL == << >>                       \* sql NULL / nil pointer
Blank == ""                         \* a string that is empty after TrimSpace
Malformed == "malformed"            \* base64 that does not decode to the size wanted
Unparseable == "not-rfc3339"        \* an issuedAt that time.Parse rejects

ClientKeys == {"K1", "K2"}          \* well-formed client public keys
AdminKey == "A1"                    \* a well-formed key an operator may configure
PublicKeys == ClientKeys \cup {AdminKey}

ServerFingerprint == "fpS"          \* State.serverFingerprint
OtherFingerprint == "fpX"           \* the fingerprint of some other server
Fingerprints == {ServerFingerprint, OtherFingerprint}

InviteIds == 1..MaxInvites
Challenges == 1..MaxChallenges
Callers == 1..MaxCallers

TextChannel == [ID |-> "general", Type |-> "text"]
VoiceMain == [ID |-> "voice-main", Type |-> "voice"]
VoiceAfk == [ID |-> "voice-afk", Type |-> "voice"]

\* loadOrCreateServerConfig: the generated default when no file exists, or a
\* file that only has to name a server and at least one channel.
DefaultServerConfig ==
    [Channels |-> <<TextChannel, VoiceMain, VoiceAfk>>, AdminPublicKeys |-> {}]
LoadedServerConfig ==
    [Channels |-> <<TextChannel>>, AdminPublicKeys |-> {AdminKey}]
loadOrCreateServerConfig == {DefaultServerConfig, LoadedServerConfig}

----------------------------------------------------------------------------
\* Pure helpers.

OK == [Status |-> 200, Code |-> "ok"]
newAPIError(status, code) == [Status |-> status, Code |-> code]

\* decodePublicKey succeeds exactly on base64 of 32 bytes.
decodePublicKeyOk(value) == value \in PublicKeys

\* decodeSignature succeeds exactly on base64 of 64 bytes.
decodeSignatureOk(value) == value.raw = "sig"

\* The bytes of one fixed-width field.
Bytes(x) == <<x>>

\* sha256.Sum256 over the concatenation challenge || inviteID || fingerprint.
\* Mutation: the server hashes the fields in another order than the client.
SignaturePayloadHash_Reordered(challenge, inviteID, serverFingerprint) ==
    Bytes(inviteID) \o Bytes(challenge) \o Bytes(serverFingerprint)

SignaturePayloadHash(challenge, inviteID, serverFingerprint) ==
    Bytes(challenge) \o Bytes(inviteID) \o Bytes(serverFingerprint)

\* ed25519.Sign with the private key paired with publicKey, base64-encoded.
Sign(publicKey, message) == [raw |-> "sig", signer |-> publicKey, message |-> message]
MalformedSignature == [raw |-> Malformed, signer |-> Blank, message |-> << >>]
BlankSignature == [raw |-> Blank, signer |-> Blank, message |-> << >>]

\* ed25519.Verify(publicKey, message, signature).
Verify(publicKey, message, signature) ==
    signature.signer = publicKey /\ signature.message = message

\* FinishRequest; InviteID 0 and Challenge 0 stand for a blank string.
FinishRequest(inviteID, clientPublicKey, challenge, signature, displayName) ==
    [InviteID |-> inviteID, ClientPublicKey |-> clientPublicKey,
     Challenge |-> challenge, Signature |-> signature, DisplayName |-> displayName]
NoRequest == FinishRequest(0, Blank, 0, BlankSignature, Blank)
NoReturn == [InviteID |-> 0, Code |-> Blank, Current |-> FALSE]
NoReply ==
    [Message |-> << >>, Messages |-> << >>, Participants |-> << >>, Stream |-> 0,
     Join |-> << >>]

\* normalizeDisplayName: the trimmed name, or "User " + key prefix when empty.
normalizeDisplayName(displayName, publicKey) ==
    IF displayName # Blank THEN displayName ELSE "User " \o publicKey

\* What a call hands back to its caller: the APIError (or 200/"ok"), and on
\* success the invite id, the session token and the channel list it returns.
Response(op, result, invite, token, channels) ==
    [op |-> op, status |-> result.Status, code |-> result.Code,
     invite |-> invite, token |-> token, channels |-> channels]


Remove(f, k) == [x \in DOMAIN f \ {k} |-> f[x]]
Put(f, k, v) == [x \in DOMAIN f \cup {k} |-> IF x = k THEN v ELSE f[x]]

----------------------------------------------------------------------------
Init ==
    /\ serverCfg \in loadOrCreateServerConfig
    /\ now = 0
    /\ ticks = 0
    /\ invites = << >>
    /\ challenges = << >>
    /\ members = << >>
    /\ sessions = << >>
    /\ nextChallenge = 1
    /\ nextToken = 1
    /\ waiting = [c \in Callers |-> NoRequest]
    /\ returned = [c \in Callers |-> NoReturn]
    /\ last = Response("New", OK, 0, 0, << >>)
    /\ issued = << >>
    /\ minted = << >>
    /\ messages = << >>
    /\ streams = << >>
    /\ nextStream = 0
    /\ cancels = << >>
    /\ closes = << >>
    /\ voice = << >>
    /\ reply = NoReply
    /\ published = 0

\* The clock advances between calls.
TickSteps == {challengeTTL, challengeTTL + 1, sessionTTL - 1, sessionTTL}
Tick ==
    /\ ticks < MaxTicks
    /\ \E d \in TickSteps : now' = now + d
    /\ ticks' = ticks + 1
    /\ UNCHANGED <<serverCfg, invites, challenges, members, sessions,
                   nextChallenge, nextToken, waiting, returned, last, issued, minted>>
    /\ UNCHANGED room


----------------------------------------------------------------------------
\* Invite ledger.

\* randomHex(16): a fresh id; invites are never deleted.
NewInviteID == Cardinality(DOMAIN invites) + 1

createInviteLocked(op, clientPublicKeyB64) ==
    /\ NewInviteID <= MaxInvites
    /\ invites' = Put(invites, NewInviteID,
                      [AllowedClientPublicKey |-> clientPublicKeyB64, UsedAt |-> NULL])
    /\ last' = Response(op, OK, NewInviteID, 0, << >>)

\* State.CreateInvite, reached through the bearer-token admin route.
CreateInvite(clientPublicKeyB64) ==
    /\ IF ~decodePublicKeyOk(clientPublicKeyB64)
       THEN /\ last' = Response("CreateInvite",
                                newAPIError(400, "invalid_client_public_key"), 0, 0, << >>)
            /\ UNCHANGED invites
       ELSE createInviteLocked("CreateInvite", clientPublicKeyB64)
    /\ UNCHANGED <<serverCfg, now, ticks, challenges, members, sessions,
                   nextChallenge, nextToken, issued, minted>>

\* lookupInvite: the row, or 404 invite_not_found.
lookupInviteOk(inviteID) == inviteID \in DOMAIN invites

----------------------------------------------------------------------------
\* Handshake engine.

pendingChallenge(challenge, expiresAt) ==
    [Challenge |-> challenge, ExpiresAt |-> expiresAt]

\* Mutation: the handler does not look at used_at.
BeginConnectResult_AnyInvite(inviteID) ==
    IF inviteID = 0 THEN newAPIError(400, "invalid_invite")
    ELSE IF ~lookupInviteOk(inviteID) THEN newAPIError(404, "invite_not_found")
    ELSE OK

BeginConnectResult(inviteID) ==
    IF inviteID = 0 THEN newAPIError(400, "invalid_invite")
    ELSE IF ~lookupInviteOk(inviteID) THEN newAPIError(404, "invite_not_found")
    ELSE IF invites[inviteID].UsedAt # NULL THEN newAPIError(403, "invite_used")
    ELSE OK

\* s.challenges[inviteID] = pendingChallenge{...}: a map write, which replaces
\* whatever was stored for the invite.
\* Mutation: a challenge already pending for the invite is kept.
StoreChallenge_KeepFirst(inviteID, pending) ==
    IF inviteID \in DOMAIN challenges THEN challenges
    ELSE Put(challenges, inviteID, pending)

StoreChallenge(inviteID, pending) == Put(challenges, inviteID, pending)

BeginConnect(inviteID) ==
    LET result == BeginConnectResult(inviteID)
        pending == pendingChallenge(nextChallenge, now + challengeTTL)
    IN  /\ IF result = OK
           THEN /\ nextChallenge <= MaxChallenges
                /\ challenges' = StoreChallenge(inviteID, pending)
                /\ nextChallenge' = nextChallenge + 1
                /\ issued' = Put(issued, inviteID,
                                 IF inviteID \in DOMAIN issued
                                 THEN Append(issued[inviteID], pending)
                                 ELSE <<pending>>)
           ELSE UNCHANGED <<challenges, nextChallenge, issued>>
        /\ last' = Response("BeginConnect", result, 0, 0, << >>)
        /\ UNCHANGED <<serverCfg, now, ticks, invites, members, sessions,
                       nextToken, minted>>

\* The checks of FinishConnect in the order of the code, up to the signature.
\* Mutation: the handler does not look at used_at before going on.
InviteCheck_NoUsedAt(req) ==
    IF req.InviteID = 0 THEN newAPIError(400, "invalid_request")
    ELSE IF req.ClientPublicKey = Blank \/ req.Challenge = 0 \/ req.Signature.raw = Blank
    THEN newAPIError(400, "invalid_request")
    ELSE IF ~lookupInviteOk(req.InviteID) THEN newAPIError(404, "invite_not_found")
    ELSE IF req.ClientPublicKey # invites[req.InviteID].AllowedClientPublicKey
    THEN newAPIError(403, "client_not_allowed")
    ELSE OK

\* Mutation: the handler does not compare the key with the invite's bound key.
InviteCheck_AnyKey(req) ==
    IF req.InviteID = 0 THEN newAPIError(400, "invalid_request")
    ELSE IF req.ClientPublicKey = Blank \/ req.Challenge = 0 \/ req.Signature.raw = Blank
    THEN newAPIError(400, "invalid_request")
    ELSE IF ~lookupInviteOk(req.InviteID) THEN newAPIError(404, "invite_not_found")
    ELSE IF invites[req.InviteID].UsedAt # NULL THEN newAPIError(403, "invite_used")
    ELSE OK

\* FinishConnect, first part: the request's fields, the invite row, the bound key.
InviteCheck(req) ==
    IF req.InviteID = 0 THEN newAPIError(400, "invalid_request")
    ELSE IF req.ClientPublicKey = Blank \/ req.Challenge = 0 \/ req.Signature.raw = Blank
    THEN newAPIError(400, "invalid_request")
    ELSE IF ~lookupInviteOk(req.InviteID) THEN newAPIError(404, "invite_not_found")
    ELSE IF invites[req.InviteID].UsedAt # NULL THEN newAPIError(403, "invite_used")
    ELSE IF req.ClientPublicKey # invites[req.InviteID].AllowedClientPublicKey
    THEN newAPIError(403, "client_not_allowed")
    ELSE OK

\* Mutation: any challenge is accepted while one is pending and unexpired.
ChallengeCheck_NoCompare(req) ==
    IF req.InviteID \notin DOMAIN challenges THEN newAPIError(401, "challenge_missing")
    ELSE IF now > challenges[req.InviteID].ExpiresAt THEN newAPIError(401, "challenge_expired")
    ELSE OK

\* FinishConnect, second part: the pending challenge of the invite.
ChallengeCheck(req) ==
    IF req.InviteID \notin DOMAIN challenges THEN newAPIError(401, "challenge_missing")
    ELSE IF now > challenges[req.InviteID].ExpiresAt THEN newAPIError(401, "challenge_expired")
    ELSE IF req.Challenge # challenges[req.InviteID].Challenge
    THEN newAPIError(401, "challenge_mismatch")
    ELSE OK

\* FinishConnect, third part: decoding and the Ed25519 verification.
SignatureCheck(req) ==
    IF ~decodePublicKeyOk(req.ClientPublicKey)
    THEN newAPIError(400, "invalid_client_public_key")
    ELSE IF ~decodeSignatureOk(req.Signature) THEN newAPIError(400, "invalid_signature")
    ELSE IF ~Verify(req.ClientPublicKey,
                    SignaturePayloadHash(req.Challenge, req.InviteID, ServerFingerprint),
                    req.Signature)
    THEN newAPIError(401, "invalid_signature")
    ELSE OK

\* Mutation: the signature is verified before the pending challenge is looked up.
FinishConnectResult_SignatureFirst(req) ==
    IF InviteCheck(req) # OK THEN InviteCheck(req)
    ELSE IF SignatureCheck(req) # OK THEN SignatureCheck(req)
    ELSE ChallengeCheck(req)

\* The checks of FinishConnect in the order the handler makes them.
FinishConnectResult(req) ==
    IF InviteCheck(req) # OK THEN InviteCheck(req)
    ELSE IF ChallengeCheck(req) # OK THEN ChallengeCheck(req)
    ELSE SignatureCheck(req)

\* Mutation: the UPDATE has lost its id = ? condition.
MarkInviteUsed_AllRows(inviteID, usedAt) ==
    [i \in DOMAIN invites |->
        IF invites[i].UsedAt = NULL
        THEN [invites[i] EXCEPT !.UsedAt = <<usedAt>>]
        ELSE invites[i]]

\* UPDATE invites SET used_at = ? WHERE id = ? AND used_at IS NULL
MarkInviteUsed(inviteID, usedAt) ==
    [i \in DOMAIN invites |->
        IF i = inviteID /\ invites[i].UsedAt = NULL
        THEN [invites[i] EXCEPT !.UsedAt = <<usedAt>>]
        ELSE invites[i]]
RowsAffected(inviteID, usedAt) ==
    Cardinality({i \in DOMAIN invites : MarkInviteUsed(inviteID, usedAt)[i] # invites[i]})

\* upsertMemberLocked: insert, or replace the display name.
upsertMemberLocked(publicKey, displayName) == Put(members, publicKey, displayName)

\* issueSessionTokenLocked: randomHex(32) and a row that expires after sessionTTL.
issueSessionTokenLocked(publicKey) ==
    Put(sessions, nextToken,
        [ClientPublicKey |-> publicKey, ExpiresAt |-> now + sessionTTL])

\* Mutation: a failed signature check burns the challenge as well.
ChallengesAfterFinish_Burn(req, result) ==
    IF result = OK \/ result.Code \in {"challenge_expired", "invalid_signature"}
    THEN Remove(challenges, req.InviteID)
    ELSE challenges

\* Mutation: the challenge of a redeemed invite is left in the map.
ChallengesAfterFinish_KeepRedeemed(req, result) ==
    IF result.Code = "challenge_expired" THEN Remove(challenges, req.InviteID)
    ELSE challenges

\* Mutation: a challenge found expired is left in the map.
ChallengesAfterFinish_KeepExpired(req, result) ==
    IF result = OK THEN Remove(challenges, req.InviteID) ELSE challenges

\* The pending challenge is deleted when it is found expired and when the
\* invite is redeemed, and on no other path.
ChallengesAfterFinish(req, result) ==
    IF result = OK \/ result.Code = "challenge_expired"
    THEN Remove(challenges, req.InviteID)
    ELSE challenges

FinishConnect(req) ==
    LET checked == FinishConnectResult(req)
        result == IF checked = OK /\ RowsAffected(req.InviteID, now) = 0
                  THEN newAPIError(403, "invite_used")
                  ELSE checked
    IN  /\ IF result = OK
           THEN /\ invites' = MarkInviteUsed(req.InviteID, now)
                /\ challenges' = ChallengesAfterFinish(req, result)
                /\ members' = upsertMemberLocked(req.ClientPublicKey,
                                  normalizeDisplayName(req.DisplayName, req.ClientPublicKey))
                /\ sessions' = issueSessionTokenLocked(req.ClientPublicKey)
                /\ nextToken' = nextToken + 1
                /\ minted' = Put(minted, req.InviteID,
                                 (IF req.InviteID \in DOMAIN minted
                                  THEN minted[req.InviteID] ELSE {}) \cup {nextToken})
                /\ last' = Response("FinishConnect", OK, req.InviteID, nextToken,
                                    serverCfg.Channels)
           ELSE /\ challenges' = ChallengesAfterFinish(req, result)
                /\ last' = Response("FinishConnect", result, 0, 0, << >>)
                /\ UNCHANGED <<invites, members, sessions, nextToken, minted>>
        /\ UNCHANGED <<serverCfg, now, ticks, nextChallenge, issued>>

\* The statements FinishConnect runs on the store after it has marked the
\* invite used; each is a db.Exec that may return an error.
StoreFaults == {"upsert member", "create session"}

\* FinishConnect on the path where one of those statements fails: the checks
\* have passed, the UPDATE of the invite has run and the challenge has been
\* deleted; the error is returned as it is, which the route answers with 500.
FinishConnectStoreFault(req, fault) ==
    /\ FinishConnectResult(req) = OK
    /\ RowsAffected(req.InviteID, now) # 0
    /\ invites' = MarkInviteUsed(req.InviteID, now)
    /\ challenges' = ChallengesAfterFinish(req, OK)
    /\ members' = IF fault = "create session"
                  THEN upsertMemberLocked(req.ClientPublicKey,
                           normalizeDisplayName(req.DisplayName, req.ClientPublicKey))
                  ELSE members
    /\ last' = Response("FinishConnect", newAPIError(500, "internal_error"), 0, 0, << >>)
    /\ UNCHANGED <<serverCfg, now, ticks, sessions, nextChallenge, nextToken, issued,
                   minted>>

----------------------------------------------------------------------------
\* Session directory.

\* Mutation: the sweep spares a session at the very instant it expires.
SweepSessions_Strict(at) ==
    [t \in {u \in DOMAIN sessions : ~(sessions[u].ExpiresAt < at)} |-> sessions[t]]

\* DELETE FROM sessions WHERE expires_at <= now
SweepSessions(at) ==
    [t \in {u \in DOMAIN sessions : ~(sessions[u].ExpiresAt <= at)} |-> sessions[t]]

\* SELECT ... FROM sessions s JOIN members m ... WHERE s.token = ?
SessionRowFound(table, token) ==
    token \in DOMAIN table /\ table[token].ClientPublicKey \in DOMAIN members

\* Mutation: the expiry of a stored row is reported before the sweep runs.
authenticateSessionResult_ExpiredCode(token) ==
    IF token = 0 THEN newAPIError(401, "missing_session_token")
    ELSE IF token \in DOMAIN sessions /\ sessions[token].ExpiresAt <= now
    THEN newAPIError(401, "session_expired")
    ELSE IF ~SessionRowFound(SweepSessions(now), token)
    THEN newAPIError(401, "invalid_session_token")
    ELSE OK

\* authenticateSessionLocked; token 0 stands for a blank string.
authenticateSessionResult(token) ==
    IF token = 0 THEN newAPIError(401, "missing_session_token")
    ELSE IF ~SessionRowFound(SweepSessions(now), token)
    THEN newAPIError(401, "invalid_session_token")
    ELSE IF SweepSessions(now)[token].ExpiresAt <= now
    THEN newAPIError(401, "invalid_session_token")
    ELSE OK

authenticateSessionLocked(token) ==
    IF token = 0 THEN sessions
    ELSE IF SessionRowFound(SweepSessions(now), token)
            /\ SweepSessions(now)[token].ExpiresAt <= now
    THEN Remove(SweepSessions(now), token)
    ELSE SweepSessions(now)

AuthenticateSession(token) ==
    /\ sessions' = authenticateSessionLocked(token)
    /\ last' = Response("AuthenticateSession", authenticateSessionResult(token),
                        0, token, << >>)
    /\ UNCHANGED <<serverCfg, now, ticks, invites, challenges, members,
                   nextChallenge, nextToken, issued, minted>>

----------------------------------------------------------------------------
\* Admin authenticator.

\* An issuedAt string: what time.Parse makes of it, or that it does not parse.
IssuedAt(time) == [raw |-> "rfc3339", time |-> time]
UnparseableIssuedAt == [raw |-> Unparseable, time |-> 0]
BlankIssuedAt == [raw |-> Blank, time |-> 0]

AdminInvitePayloadHash(adminPublicKey, clientPublicKey, issuedAt) ==
    Bytes(adminPublicKey) \o Bytes(clientPublicKey) \o Bytes(issuedAt)

AdminListInvitesPayloadHash(adminPublicKey, issuedAt) ==
    Bytes(adminPublicKey) \o Bytes(issuedAt)

\* Mutation: every well-formed key passes for an admin key.
isAdminPublicKeyLocked_Any(publicKey) == TRUE

isAdminPublicKeyLocked(publicKey) == publicKey \in serverCfg.AdminPublicKeys

\* Mutation: only a timestamp in the past counts as stale.
SkewExceeded_PastOnly(issuedAt) == now - issuedAt.time > adminRequestMaxSkew

\* time.Since(issuedAt) > adminRequestMaxSkew || time.Until(issuedAt) > adminRequestMaxSkew
SkewExceeded(issuedAt) ==
    \/ now - issuedAt.time > adminRequestMaxSkew
    \/ issuedAt.time - now > adminRequestMaxSkew

\* Mutation: a client key that already has an invite is not invited again.
CreateInviteByAdminClientResult_Once(req) ==
    IF req.AdminPublicKey = Blank \/ req.ClientPublicKey = Blank
       \/ req.IssuedAt.raw = Blank \/ req.Signature.raw = Blank
    THEN newAPIError(400, "invalid_request")
    ELSE IF ~decodePublicKeyOk(req.AdminPublicKey)
    THEN newAPIError(400, "invalid_admin_public_key")
    ELSE IF ~decodePublicKeyOk(req.ClientPublicKey)
    THEN newAPIError(400, "invalid_client_public_key")
    ELSE IF ~isAdminPublicKeyLocked(req.AdminPublicKey)
    THEN newAPIError(403, "admin_forbidden")
    ELSE IF req.IssuedAt.raw = Unparseable THEN newAPIError(400, "invalid_issued_at")
    ELSE IF SkewExceeded(req.IssuedAt) THEN newAPIError(401, "stale_request")
    ELSE IF ~decodeSignatureOk(req.Signature) THEN newAPIError(400, "invalid_signature")
    ELSE IF ~Verify(req.AdminPublicKey,
                    AdminInvitePayloadHash(req.AdminPublicKey, req.ClientPublicKey,
                                           req.IssuedAt),
                    req.Signature)
    THEN newAPIError(401, "invalid_signature")
    ELSE IF \E i \in DOMAIN invites :
               invites[i].AllowedClientPublicKey = req.ClientPublicKey
    THEN newAPIError(401, "stale_request")
    ELSE OK

CreateInviteByAdminClientResult(req) ==
    IF req.AdminPublicKey = Blank \/ req.ClientPublicKey = Blank
       \/ req.IssuedAt.raw = Blank \/ req.Signature.raw = Blank
    THEN newAPIError(400, "invalid_request")
    ELSE IF ~decodePublicKeyOk(req.AdminPublicKey)
    THEN newAPIError(400, "invalid_admin_public_key")
    ELSE IF ~decodePublicKeyOk(req.ClientPublicKey)
    THEN newAPIError(400, "invalid_client_public_key")
    ELSE IF ~isAdminPublicKeyLocked(req.AdminPublicKey)
    THEN newAPIError(403, "admin_forbidden")
    ELSE IF req.IssuedAt.raw = Unparseable THEN newAPIError(400, "invalid_issued_at")
    ELSE IF SkewExceeded(req.IssuedAt) THEN newAPIError(401, "stale_request")
    ELSE IF ~decodeSignatureOk(req.Signature) THEN newAPIError(400, "invalid_signature")
    ELSE IF ~Verify(req.AdminPublicKey,
                    AdminInvitePayloadHash(req.AdminPublicKey, req.ClientPublicKey,
                                           req.IssuedAt),
                    req.Signature)
    THEN newAPIError(401, "invalid_signature")
    ELSE OK

CreateInviteByAdminClient(req) ==
    LET result == CreateInviteByAdminClientResult(req)
    IN  /\ IF result = OK
           THEN createInviteLocked("CreateInviteByAdminClient", req.ClientPublicKey)
           ELSE /\ last' = Response("CreateInviteByAdminClient", result, 0, 0, << >>)
                /\ UNCHANGED invites
        /\ UNCHANGED <<serverCfg, now, ticks, challenges, members, sessions,
                       nextChallenge, nextToken, issued, minted>>

ListInvitesByAdminClientResult(req) ==
    IF req.AdminPublicKey = Blank \/ req.IssuedAt.raw = Blank \/ req.Signature.raw = Blank
    THEN newAPIError(400, "invalid_request")
    ELSE IF ~decodePublicKeyOk(req.AdminPublicKey)
    THEN newAPIError(400, "invalid_admin_public_key")
    ELSE IF ~isAdminPublicKeyLocked(req.AdminPublicKey)
    THEN newAPIError(403, "admin_forbidden")
    ELSE IF req.IssuedAt.raw = Unparseable THEN newAPIError(400, "invalid_issued_at")
    ELSE IF SkewExceeded(req.IssuedAt) THEN newAPIError(401, "stale_request")
    ELSE IF ~decodeSignatureOk(req.Signature) THEN newAPIError(400, "invalid_signature")
    ELSE IF ~Verify(req.AdminPublicKey,
                    AdminListInvitesPayloadHash(req.AdminPublicKey, req.IssuedAt),
                    req.Signature)
    THEN newAPIError(401, "invalid_signature")
    ELSE OK

\* A read: on success it returns every invite with its status and writes nothing.
ListInvitesByAdminClient(req) ==
    /\ last' = Response("ListInvitesByAdminClient", ListInvitesByAdminClientResult(req),
                        0, 0, << >>)
    /\ UNCHANGED <<serverCfg, now, ticks, invites, challenges, members, sessions,
                   nextChallenge, nextToken, issued, minted>>

----------------------------------------------------------------------------
\* What clients send.

\* createHandshakeSignature of the client: sign sha256(challenge || inviteID ||
\* serverFingerprint) with the client's own private key.
createHandshakeSignature(challenge, inviteID, serverFingerprint, clientKey) ==
    Sign(clientKey, <<challenge, inviteID, serverFingerprint>>)

\* createAdminInviteSignature of the client.
createAdminInviteSignature(adminPublicKey, clientPublicKey, issuedAt) ==
    Sign(adminPublicKey, <<adminPublicKey, clientPublicKey, issuedAt>>)

\* The signature an admin client makes for listing invites.
createAdminListInvitesSignature(adminPublicKey, issuedAt) ==
    Sign(adminPublicKey, <<adminPublicKey, issuedAt>>)

\* The display name each client has set: K1 a name, K2 none.
ClientDisplayName(clientKey) == IF clientKey = "K1" THEN "alice" ELSE Blank

\* The request of a client that holds clientKey and answers challenge for inviteID.
HonestFinishRequest(inviteID, clientKey, challenge, displayName) ==
    FinishRequest(inviteID, clientKey, challenge,
                  createHandshakeSignature(challenge, inviteID, ServerFingerprint, clientKey),
                  displayName)

\* Signatures that are not the honest one: made by another key, or over another
\* challenge, invite or fingerprint, or not a signature at all.
ForgedSignatures(inviteID, clientKey, challenge) ==
    {createHandshakeSignature(challenge, inviteID, ServerFingerprint, k) :
        k \in ClientKeys \ {clientKey}}
    \cup {createHandshakeSignature(c, inviteID, ServerFingerprint, clientKey) :
        c \in Challenges \ {challenge}}
    \cup {createHandshakeSignature(challenge, i, ServerFingerprint, clientKey) :
        i \in InviteIds \ {inviteID}}
    \cup {createHandshakeSignature(challenge, inviteID, OtherFingerprint, clientKey),
          MalformedSignature}

\* What may be sent for one invite, key and challenge: the honest answer and
\* every forgery of it.
RequestsFor(inviteID, clientKey, challenge) ==
    {HonestFinishRequest(inviteID, clientKey, challenge, ClientDisplayName(clientKey))}
    \cup {FinishRequest(inviteID, clientKey, challenge, sig, Blank) :
            sig \in ForgedSignatures(inviteID, clientKey, challenge)}

FinishRequests ==
    UNION {RequestsFor(i, k, c) : i \in InviteIds, k \in ClientKeys, c \in Challenges}
    \cup {FinishRequest(0, "K1", 1, MalformedSignature, Blank),
          FinishRequest(1, Blank, 1, MalformedSignature, Blank),
          FinishRequest(1, "K1", 0, MalformedSignature, Blank),
          FinishRequest(1, "K1", 1, BlankSignature, Blank)}

SkewOffsets ==
    {0 - (adminRequestMaxSkew + 1), 0 - adminRequestMaxSkew, 0,
     adminRequestMaxSkew, adminRequestMaxSkew + 1}

CreateInviteByAdminClientRequest(adminPublicKey, clientPublicKey, issuedAt, signature) ==
    [AdminPublicKey |-> adminPublicKey, ClientPublicKey |-> clientPublicKey,
     IssuedAt |-> issuedAt, Signature |-> signature]

ForgedAdminInviteSignatures(clientPublicKey, issuedAt) ==
    {Sign("K2", <<AdminKey, clientPublicKey, issuedAt>>),
     createAdminInviteSignature(AdminKey, "K2", issuedAt),
     createAdminInviteSignature(AdminKey, clientPublicKey, IssuedAt(issuedAt.time + 1)),
     createAdminListInvitesSignature(AdminKey, issuedAt),
     MalformedSignature}

AdminCreateRequests ==
    {CreateInviteByAdminClientRequest(AdminKey, c, IssuedAt(now + d),
        createAdminInviteSignature(AdminKey, c, IssuedAt(now + d))) :
        c \in ClientKeys, d \in SkewOffsets}
    \cup UNION {{CreateInviteByAdminClientRequest(AdminKey, "K1", IssuedAt(now + d), sig) :
        sig \in ForgedAdminInviteSignatures("K1", IssuedAt(now + d))} : d \in SkewOffsets}
    \cup {CreateInviteByAdminClientRequest("K1", "K2", IssuedAt(now),
              createAdminInviteSignature("K1", "K2", IssuedAt(now))),
          CreateInviteByAdminClientRequest(Malformed, "K1", IssuedAt(now), MalformedSignature),
          CreateInviteByAdminClientRequest(Blank, "K1", IssuedAt(now), MalformedSignature),
          CreateInviteByAdminClientRequest(AdminKey, Malformed, IssuedAt(now),
              createAdminInviteSignature(AdminKey, Malformed, IssuedAt(now))),
          CreateInviteByAdminClientRequest(AdminKey, "K1", UnparseableIssuedAt,
              createAdminInviteSignature(AdminKey, "K1", UnparseableIssuedAt)),
          CreateInviteByAdminClientRequest(AdminKey, "K1", BlankIssuedAt,
              createAdminInviteSignature(AdminKey, "K1", BlankIssuedAt))}

ListInvitesByAdminClientRequest(adminPublicKey, issuedAt, signature) ==
    [AdminPublicKey |-> adminPublicKey, IssuedAt |-> issuedAt, Signature |-> signature]

ForgedAdminListSignatures(issuedAt) ==
    {Sign("K2", <<AdminKey, issuedAt>>),
     createAdminInviteSignature(AdminKey, "K1", issuedAt),
     MalformedSignature}

AdminListRequests ==
    {ListInvitesByAdminClientRequest(AdminKey, IssuedAt(now + d),
        createAdminListInvitesSignature(AdminKey, IssuedAt(now + d))) : d \in SkewOffsets}
    \cup UNION {{ListInvitesByAdminClientRequest(AdminKey, IssuedAt(now + d), sig) :
        sig \in ForgedAdminListSignatures(IssuedAt(now + d))} :
        d \in {0, adminRequestMaxSkew + 1}}
    \cup {ListInvitesByAdminClientRequest("K1", IssuedAt(now),
              createAdminListInvitesSignature("K1", IssuedAt(now))),
          ListInvitesByAdminClientRequest(Malformed, IssuedAt(now), MalformedSignature),
          ListInvitesByAdminClientRequest(AdminKey, UnparseableIssuedAt,
              createAdminListInvitesSignature(AdminKey, UnparseableIssuedAt)),
          ListInvitesByAdminClientRequest(AdminKey, BlankIssuedAt, MalformedSignature)}

TokenInputs == 0..(MaxInvites + 1)

----------------------------------------------------------------------------
\* One call at a time: every method holds s.mu from entry to return.

CallCreateInvite ==
    /\ \E k \in ClientKeys \cup {Malformed} : CreateInvite(k)
    /\ UNCHANGED <<race, room>>

CallCreateInviteByAdminClient ==
    /\ \E req \in AdminCreateRequests : CreateInviteByAdminClient(req)
    /\ UNCHANGED <<race, room>>

CallListInvitesByAdminClient ==
    /\ \E req \in AdminListRequests : ListInvitesByAdminClient(req)
    /\ UNCHANGED <<race, room>>

CallBeginConnect ==
    /\ \E i \in 0..MaxInvites : BeginConnect(i)
    /\ UNCHANGED <<race, room>>

CallFinishConnect ==
    /\ \E req \in FinishRequests : FinishConnect(req)
    /\ UNCHANGED <<race, room>>

CallAuthenticateSession ==
    /\ \E token \in TokenInputs : AuthenticateSession(token)
    /\ UNCHANGED <<race, room>>

\* A FinishConnect call in flight: the handler goroutine has its request and
\* blocks on s.mu.Lock().  The caller is the invited client, answering the
\* challenge that is pending when it calls.
EnterFinishConnect(caller) ==
    /\ waiting[caller] = NoRequest
    /\ \E i \in DOMAIN challenges :
          waiting' = [waiting EXCEPT ![caller] =
              HonestFinishRequest(i, invites[i].AllowedClientPublicKey,
                                  challenges[i].Challenge,
                                  ClientDisplayName(invites[i].AllowedClientPublicKey))]
    /\ UNCHANGED <<serverCfg, now, ticks, invites, challenges, members, sessions,
                   nextChallenge, nextToken, returned, last, issued, minted>>
    /\ UNCHANGED room

\* The most recent challenge BeginConnect issued for an invite.
LatestIssued(inviteID) == issued[inviteID][Len(issued[inviteID])]

\* The blocked call gets the lock and runs to its return.  Current records
\* whether the request still carried the latest, unexpired challenge then.
ServeFinishConnect(caller) ==
    /\ waiting[caller] # NoRequest
    /\ FinishConnect(waiting[caller])
    /\ waiting' = [waiting EXCEPT ![caller] = NoRequest]
    /\ returned' = [returned EXCEPT ![caller] =
          [InviteID |-> waiting[caller].InviteID,
           Code |-> last'.code,
           Current |-> /\ LatestIssued(waiting[caller].InviteID).Challenge
                            = waiting[caller].Challenge
                       /\ ~(now > LatestIssued(waiting[caller].InviteID).ExpiresAt)]]
    /\ UNCHANGED room

\* Handshake and session directory.
Next ==
    \/ Tick
    \/ CallCreateInvite
    \/ CallBeginConnect
    \/ CallFinishConnect
    \/ CallAuthenticateSession

Spec == Init /\ [][Next]_vars

\* Concurrent FinishConnect calls of invited clients.
NextRace ==
    \/ Tick
    \/ CallCreateInvite
    \/ CallBeginConnect
    \/ \E caller \in Callers : EnterFinishConnect(caller)
    \/ \E caller \in Callers : ServeFinishConnect(caller)

SpecRace == Init /\ [][NextRace]_vars

\* Admin-signed requests beside the handshake of invited clients.
CallHonestFinishConnect ==
    /\ \E i \in DOMAIN challenges :
          FinishConnect(HonestFinishRequest(i, invites[i].AllowedClientPublicKey,
                            challenges[i].Challenge,
                            ClientDisplayName(invites[i].AllowedClientPublicKey)))
    /\ UNCHANGED <<race, room>>

\* The handshake on a store whose writes may fail.
CallFinishConnectStoreFault ==
    /\ \E i \in DOMAIN challenges, fault \in StoreFaults :
          FinishConnectStoreFault(
              HonestFinishRequest(i, invites[i].AllowedClientPublicKey,
                  challenges[i].Challenge,
                  ClientDisplayName(invites[i].AllowedClientPublicKey)), fault)
    /\ UNCHANGED <<race, room>>

NextFaults ==
    \/ Tick
    \/ CallCreateInvite
    \/ CallBeginConnect
    \/ CallHonestFinishConnect
    \/ CallFinishConnectStoreFault

SpecFaults == Init /\ [][NextFaults]_vars

NextAdmin ==
    \/ Tick
    \/ CallCreateInviteByAdminClient
    \/ CallListInvitesByAdminClient
    \/ CallBeginConnect
    \/ CallHonestFinishConnect

SpecAdmin == Init /\ [][NextAdmin]_vars

----------------------------------------------------------------------------
\* Message store and event streams.

defaultMessageHistoryLimit == 100
maxMessageHistoryLimit == 100
maxMessageLength == 4000
StreamCapacity == 32                \* make(chan ChannelEvent, 32)

MaxMessages == 2
MaxStreams == 2
MaxChatTicks == 2
MaxCancels == 2
MaxEvents == 3
MaxBurst == 34
MaxRoomEvents == 2
MaxRoomStreams == 1
MaxVoiceTicks == 2
MaxVoiceRowid == 3
MaxRestarts == 1

\* A string as a caller sends it: its text without the surrounding white
\* space, how long that text is, and how much white space surrounds it.
\* Two strings are equal when all three agree.
Str(pad, text, size) == [pad |-> pad, text |-> text, size |-> size]
TrimSpace(str) == Str(0, str.text, str.size)
Len8(str) == str.size + str.pad

\* What the tables and the clock were left untouched by a message call.
handshake == <<serverCfg, invites, challenges, members, nextChallenge, nextToken,
               waiting, returned, issued, minted>>
clock == <<now, ticks>>

\* The identity authenticateSessionLocked returns for an accepted token.
SessionIdentity(token) ==
    [PublicKey |-> sessions[token].ClientPublicKey,
     DisplayName |-> members[sessions[token].ClientPublicKey]]

ConfiguredChannels(text) ==
    {n \in DOMAIN serverCfg.Channels : serverCfg.Channels[n].ID = text}

\* Mutation: the type of the configured channel is not looked at.
ensureTextChannelLocked_AnyType(channelID) ==
    IF TrimSpace(channelID).size = 0 THEN newAPIError(400, "invalid_channel")
    ELSE IF ConfiguredChannels(TrimSpace(channelID).text) = {}
    THEN newAPIError(404, "channel_not_found")
    ELSE OK

\* ensureTextChannelLocked: the id is trimmed for the lookup only.
ensureTextChannelLocked(channelID) ==
    IF TrimSpace(channelID).size = 0 THEN newAPIError(400, "invalid_channel")
    ELSE IF ConfiguredChannels(TrimSpace(channelID).text) = {}
    THEN newAPIError(404, "channel_not_found")
    ELSE IF \E n \in ConfiguredChannels(TrimSpace(channelID).text) :
               /\ \A k \in ConfiguredChannels(TrimSpace(channelID).text) : n <= k
               /\ serverCfg.Channels[n].Type # "text"
    THEN newAPIError(400, "invalid_channel_type")
    ELSE OK

\* Mutation: the content is checked and stored as it was sent.
normalizeMessageContent_NoTrim(contentMarkdown) == contentMarkdown

\* normalizeMessageContent: the trimmed content, to be stored.
normalizeMessageContent(contentMarkdown) == TrimSpace(contentMarkdown)

\* normalizeMessageContent: its error.
normalizeMessageContentResult(contentMarkdown) ==
    IF normalizeMessageContent(contentMarkdown).size = 0
    THEN newAPIError(400, "invalid_message")
    ELSE IF Len8(normalizeMessageContent(contentMarkdown)) > maxMessageLength
    THEN newAPIError(400, "invalid_message")
    ELSE OK

ChannelMessage(id, channelID, author, content, createdAt, updatedAt) ==
    [ID |-> id, ChannelID |-> channelID, Author |-> author,
     ContentMarkdown |-> content, CreatedAt |-> createdAt, UpdatedAt |-> updatedAt]

ChannelEvent(type, message) == [Type |-> type, Message |-> message]

\* select { case stream <- event: default: } on one stream.
Offer(buffer, event) ==
    IF Len(buffer) < StreamCapacity THEN Append(buffer, event) ELSE buffer

\* Mutation: nothing is offered while the session table holds a session that
\* has expired.
broadcastChannelEventLocked_LiveSessions(channelID, event) ==
    [c \in DOMAIN streams |->
        IF c = channelID /\ \A t \in DOMAIN sessions : sessions[t].ExpiresAt > now
        THEN [id \in DOMAIN streams[c] |-> Offer(streams[c][id], event)]
        ELSE streams[c]]

\* broadcastChannelEventLocked: offer the event to every stream kept under
\* exactly this channel id.
broadcastChannelEventLocked(channelID, event) ==
    [c \in DOMAIN streams |->
        IF c = channelID
        THEN [id \in DOMAIN streams[c] |-> Offer(streams[c][id], event)]
        ELSE streams[c]]

\* The checks every message call makes before it does its work.
MessageGate(sessionToken, channelID) ==
    IF authenticateSessionResult(sessionToken) # OK
    THEN authenticateSessionResult(sessionToken)
    ELSE ensureTextChannelLocked(channelID)

\* Mutation: updated_at is left at its zero value on insert.
NewMessage_NoUpdatedAt(identity, channelID, content) ==
    ChannelMessage(Len(messages) + 1, channelID, identity, content, now, 0)

\* The row CreateMessage inserts: a fresh id, both timestamps the same instant.
NewMessage(identity, channelID, content) ==
    ChannelMessage(Len(messages) + 1, channelID, identity, content, now, now)

CreateMessageResult(sessionToken, channelID, contentMarkdown) ==
    IF MessageGate(sessionToken, channelID) # OK THEN MessageGate(sessionToken, channelID)
    ELSE normalizeMessageContentResult(contentMarkdown)

CreateMessage(sessionToken, channelID, contentMarkdown) ==
    LET result == CreateMessageResult(sessionToken, channelID, contentMarkdown)
        message == NewMessage(SessionIdentity(sessionToken), channelID,
                              normalizeMessageContent(contentMarkdown))
    IN  /\ sessions' = authenticateSessionLocked(sessionToken)
        /\ last' = Response("CreateMessage", result, 0, sessionToken, << >>)
        /\ IF result = OK
           THEN /\ Len(messages) < MaxMessages
                /\ messages' = Append(messages, message)
                /\ streams' = broadcastChannelEventLocked(channelID,
                                  ChannelEvent("message.created", message))
                /\ reply' = [NoReply EXCEPT !.Message = message]
                /\ published' = published + 1
           ELSE /\ reply' = NoReply
                /\ UNCHANGED <<messages, streams, published>>
        /\ UNCHANGED <<handshake, clock, nextStream, cancels, closes, voice>>

\* Mutation: the message is looked up by its id alone.
findMessageLocked_AnyChannel(channelID, messageID) ==
    {n \in DOMAIN messages : messages[n].ID = messageID}

\* findMessageLocked: SELECT ... WHERE id = ? AND channel_id = ?
findMessageLocked(channelID, messageID) ==
    {n \in DOMAIN messages :
        messages[n].ID = messageID /\ messages[n].ChannelID = channelID}

\* Mutation: only the author of a message may edit it.
EditMessageResult_AuthorOnly(sessionToken, channelID, messageID, contentMarkdown) ==
    IF MessageGate(sessionToken, channelID) # OK THEN MessageGate(sessionToken, channelID)
    ELSE IF normalizeMessageContentResult(contentMarkdown) # OK
    THEN normalizeMessageContentResult(contentMarkdown)
    ELSE IF findMessageLocked(channelID, messageID) = {}
    THEN newAPIError(404, "message_not_found")
    ELSE IF \E n \in findMessageLocked(channelID, messageID) :
               messages[n].Author.PublicKey # sessions[sessionToken].ClientPublicKey
    THEN newAPIError(403, "forbidden")
    ELSE OK

EditMessageResult(sessionToken, channelID, messageID, contentMarkdown) ==
    IF MessageGate(sessionToken, channelID) # OK THEN MessageGate(sessionToken, channelID)
    ELSE IF normalizeMessageContentResult(contentMarkdown) # OK
    THEN normalizeMessageContentResult(contentMarkdown)
    ELSE IF findMessageLocked(channelID, messageID) = {}
    THEN newAPIError(404, "message_not_found")
    ELSE OK

\* UPDATE messages SET content_markdown = ?, updated_at = ? WHERE id = ? AND channel_id = ?
UpdateMessage(channelID, messageID, content, updatedAt) ==
    [n \in DOMAIN messages |->
        IF n \in findMessageLocked(channelID, messageID)
        THEN [messages[n] EXCEPT !.ContentMarkdown = content, !.UpdatedAt = updatedAt]
        ELSE messages[n]]

EditMessage(sessionToken, channelID, messageID, contentMarkdown) ==
    LET result == EditMessageResult(sessionToken, channelID, messageID, contentMarkdown)
        content == normalizeMessageContent(contentMarkdown)
    IN  /\ sessions' = authenticateSessionLocked(sessionToken)
        /\ last' = Response("EditMessage", result, 0, sessionToken, << >>)
        /\ IF result = OK
           THEN LET existing ==
                        messages[CHOOSE n \in findMessageLocked(channelID, messageID) : TRUE]
                    updated == [existing EXCEPT !.ContentMarkdown = content,
                                                !.UpdatedAt = now]
                IN  /\ messages' = UpdateMessage(channelID, messageID, content, now)
                    /\ streams' = broadcastChannelEventLocked(channelID,
                                      ChannelEvent("message.updated", updated))
                    /\ reply' = [NoReply EXCEPT !.Message = updated]
                    /\ published' = published + 1
           ELSE /\ reply' = NoReply
                /\ UNCHANGED <<messages, streams, published>>
        /\ UNCHANGED <<handshake, clock, nextStream, cancels, closes, voice>>

\* if limit <= 0 || limit > maxMessageHistoryLimit { limit = defaultMessageHistoryLimit }
HistoryLimit(limit) ==
    IF limit <= 0 \/ limit > maxMessageHistoryLimit
    THEN defaultMessageHistoryLimit
    ELSE limit

\* The row the statement returns first among rows: the one with the greatest
\* created_at.  The statement is answered from the index on
\* (channel_id, created_at) read backwards, so among rows of one created_at
\* the row inserted last comes first.
Newest(rows) ==
    CHOOSE n \in rows :
        \A k \in rows :
            \/ messages[k].CreatedAt < messages[n].CreatedAt
            \/ messages[k].CreatedAt = messages[n].CreatedAt /\ k <= n

\* SELECT ... WHERE channel_id = ? ORDER BY created_at DESC LIMIT ?
RECURSIVE SelectNewest(_, _)
SelectNewest(rows, limit) ==
    IF rows = {} \/ limit = 0 THEN << >>
    ELSE <<messages[Newest(rows)]>> \o SelectNewest(rows \ {Newest(rows)}, limit - 1)

\* The loop that copies desc back to front.
Reverse(seq) == [n \in 1..Len(seq) |-> seq[Len(seq) + 1 - n]]

ListMessagesRows(channelID, limit) ==
    Reverse(SelectNewest({n \in DOMAIN messages : messages[n].ChannelID = channelID},
                         HistoryLimit(limit)))

ListMessages(sessionToken, channelID, limit) ==
    LET result == MessageGate(sessionToken, channelID)
    IN  /\ sessions' = authenticateSessionLocked(sessionToken)
        /\ last' = Response("ListMessages", result, 0, sessionToken, << >>)
        /\ reply' = IF result = OK
                    THEN [NoReply EXCEPT !.Messages = ListMessagesRows(channelID, limit)]
                    ELSE NoReply
        /\ UNCHANGED <<messages, streams, published>>
        /\ UNCHANGED <<handshake, clock, nextStream, cancels, closes, voice>>

\* What a caller of SubscribeChannelEvents holds: the cancel closure with the
\* channelID and streamID it captured, how often it has been called, the
\* events the caller has taken from the stream so far, and where the caller
\* is in its own code.
Subscription(channelID) ==
    [ChannelID |-> channelID, Calls |-> 0, Received |-> << >>, At |-> "subscribed"]

ChannelStreams(channelID) ==
    IF channelID \in DOMAIN streams THEN streams[channelID] ELSE << >>

SubscribeChannelEvents(sessionToken, channelID) ==
    LET result == MessageGate(sessionToken, channelID)
        streamID == nextStream + 1
    IN  /\ sessions' = authenticateSessionLocked(sessionToken)
        /\ last' = Response("SubscribeChannelEvents", result, 0, sessionToken, << >>)
        /\ IF result = OK
           THEN /\ nextStream < MaxStreams
                /\ nextStream' = streamID
                /\ streams' = Put(streams, channelID,
                                  Put(ChannelStreams(channelID), streamID, << >>))
                /\ cancels' = Put(cancels, streamID, Subscription(channelID))
                /\ closes' = Put(closes, streamID, 0)
                /\ reply' = [NoReply EXCEPT !.Stream = streamID]
           ELSE /\ reply' = NoReply
                /\ UNCHANGED <<streams, nextStream, cancels, closes>>
        /\ UNCHANGED <<handshake, clock, messages, voice, published>>

\* Whether the cancel closure of streamID still finds its stream.
Registered(streamID) ==
    /\ cancels[streamID].ChannelID \in DOMAIN streams
    /\ streamID \in DOMAIN streams[cancels[streamID].ChannelID]

\* Mutation: the channel's entry is kept when its last stream is deleted.
StreamsAfterCancel_KeepKey(streamID) ==
    IF ~Registered(streamID)
    THEN [Streams |-> streams, Closes |-> closes]
    ELSE [Streams |-> Put(streams, cancels[streamID].ChannelID,
                          Remove(streams[cancels[streamID].ChannelID], streamID)),
          Closes |-> [closes EXCEPT ![streamID] = @ + 1]]

\* Mutation: the closure closes its stream whether or not it is still kept.
StreamsAfterCancel_NoLookup(streamID) ==
    [Streams |-> IF cancels[streamID].ChannelID \in DOMAIN streams
                 THEN Put(streams, cancels[streamID].ChannelID,
                          Remove(streams[cancels[streamID].ChannelID], streamID))
                 ELSE streams,
     Closes |-> [closes EXCEPT ![streamID] = @ + 1]]

\* The cancel closure: nothing when the stream is no longer kept; otherwise
\* the stream is deleted and closed, and the channel's entry with its last one.
StreamsAfterCancel(streamID) ==
    IF ~Registered(streamID)
    THEN [Streams |-> streams, Closes |-> closes]
    ELSE [Streams |->
            IF DOMAIN streams[cancels[streamID].ChannelID] = {streamID}
            THEN Remove(streams, cancels[streamID].ChannelID)
            ELSE Put(streams, cancels[streamID].ChannelID,
                     Remove(streams[cancels[streamID].ChannelID], streamID)),
          Closes |-> [closes EXCEPT ![streamID] = @ + 1]]

cancel(streamID) ==
    /\ cancels[streamID].Calls < MaxCancels
    /\ cancels' = [cancels EXCEPT ![streamID].Calls = @ + 1]
    /\ streams' = StreamsAfterCancel(streamID).Streams
    /\ closes' = StreamsAfterCancel(streamID).Closes
    /\ last' = Response("cancel", OK, 0, 0, << >>)
    /\ reply' = [NoReply EXCEPT !.Stream = streamID]
    /\ UNCHANGED <<handshake, clock, sessions, messages, nextStream, voice, published>>

\* case event := <-events in the caller: the oldest buffered event is taken.
Receive(streamID) ==
    /\ Registered(streamID)
    /\ streams[cancels[streamID].ChannelID][streamID] # << >>
    /\ cancels' = [cancels EXCEPT ![streamID].Received =
                       Append(@, Head(streams[cancels[streamID].ChannelID][streamID]))]
    /\ streams' = [streams EXCEPT ![cancels[streamID].ChannelID][streamID] = Tail(@)]
    /\ UNCHANGED <<handshake, clock, sessions, messages, nextStream, closes, voice,
                   last, reply, published>>

\* getChannelStream after its subscription: the handler has deferred cancel
\* and goes on to upgrade the connection, announce that it is ready and serve
\* events until a write fails or the client goes away.  Each return leaves
\* the deferred calls to run.
HandlerFrame ==
    <<handshake, clock, sessions, messages, nextStream, closes, voice, last, reply,
      published>>

\* Mutation: cancel is deferred only once the connection is upgraded, so a
\* failed upgrade returns with nothing deferred.
Upgrade_NoDefer(streamID, ok) ==
    /\ cancels[streamID].At = "subscribed"
    /\ cancels' = [cancels EXCEPT ![streamID].At = IF ok THEN "upgraded" ELSE "returned"]
    /\ UNCHANGED <<HandlerFrame, streams>>

\* conn, err := wsUpgrader.Upgrade(w, r, nil)
Upgrade(streamID, ok) ==
    /\ cancels[streamID].At = "subscribed"
    /\ cancels' = [cancels EXCEPT ![streamID].At = IF ok THEN "upgraded" ELSE "returning"]
    /\ UNCHANGED <<HandlerFrame, streams>>

\* conn.WriteJSON(ChannelEvent{Type: "ready"})
WriteReady(streamID, ok) ==
    /\ cancels[streamID].At = "upgraded"
    /\ cancels' = [cancels EXCEPT ![streamID].At = IF ok THEN "serving" ELSE "returning"]
    /\ UNCHANGED <<HandlerFrame, streams>>

\* case event, ok := <-stream, then conn.WriteJSON(event)
WriteEvent(streamID, ok) ==
    /\ cancels[streamID].At = "serving"
    /\ Registered(streamID)
    /\ streams[cancels[streamID].ChannelID][streamID] # << >>
    /\ cancels' =
          IF ok
          THEN [cancels EXCEPT ![streamID].Received =
                    Append(@, Head(streams[cancels[streamID].ChannelID][streamID]))]
          ELSE [cancels EXCEPT ![streamID].At = "returning"]
    /\ streams' = [streams EXCEPT ![cancels[streamID].ChannelID][streamID] = Tail(@)]
    /\ UNCHANGED HandlerFrame

\* case <-done: conn.ReadMessage has failed, the client is gone.
Done(streamID) ==
    /\ cancels[streamID].At = "serving"
    /\ cancels' = [cancels EXCEPT ![streamID].At = "returning"]
    /\ UNCHANGED <<HandlerFrame, streams>>

\* The deferred cancel() of a handler that is returning.
DeferredCancel(streamID) ==
    /\ streamID \in DOMAIN cancels
    /\ cancels[streamID].At = "returning"
    /\ cancels' = [cancels EXCEPT ![streamID].Calls = @ + 1,
                                  ![streamID].At = "returned"]
    /\ streams' = StreamsAfterCancel(streamID).Streams
    /\ closes' = StreamsAfterCancel(streamID).Closes
    /\ UNCHANGED <<handshake, clock, sessions, messages, nextStream, voice, last, reply,
                   published>>

----------------------------------------------------------------------------
\* Voice presence.

voicePresenceTTL == 30
voicePresenceMaxLag == 5

ServerID == "srv"                   \* State.serverID

VoicePresenceUpdate(audio, video, camera, screen, screenAudio) ==
    [AudioStreams |-> audio, VideoStreams |-> video,
     CameraEnabled |-> camera, ScreenEnabled |-> screen,
     ScreenAudioEnabled |-> screenAudio]

\* The update BeginVoiceJoin writes: one audio stream, everything else off.
JoinUpdate == VoicePresenceUpdate(1, 0, FALSE, FALSE, FALSE)

Clamp(n) == IF n < 0 THEN 0 ELSE IF n > 16 THEN 16 ELSE n

\* Mutation: only the audio count is clamped.
clampVoicePresenceUpdate_AudioOnly(update) ==
    [update EXCEPT !.AudioStreams = Clamp(@)]

clampVoicePresenceUpdate(update) ==
    [update EXCEPT !.AudioStreams = Clamp(@), !.VideoStreams = Clamp(@)]

\* VoiceRoomName: "serverID:channelID", both trimmed.
VoiceRoomName(serverID, channelID) == <<serverID, TrimSpace(channelID).text>>

\* ensureVoiceChannelLocked: the id is trimmed for the lookup only.
ensureVoiceChannelLocked(channelID) ==
    IF TrimSpace(channelID).size = 0 THEN newAPIError(400, "invalid_channel")
    ELSE IF ConfiguredChannels(TrimSpace(channelID).text) = {}
    THEN newAPIError(404, "channel_not_found")
    ELSE IF \E n \in ConfiguredChannels(TrimSpace(channelID).text) :
               /\ \A k \in ConfiguredChannels(TrimSpace(channelID).text) : n <= k
               /\ serverCfg.Channels[n].Type # "voice"
    THEN newAPIError(400, "invalid_channel_type")
    ELSE OK

\* Mutation: the channel is examined before the session.
VoiceGate_ChannelFirst(sessionToken, channelID) ==
    IF ensureVoiceChannelLocked(channelID) # OK
    THEN ensureVoiceChannelLocked(channelID)
    ELSE authenticateSessionResult(sessionToken)

\* The checks a voice call on a channel makes before it does its work.
VoiceGate(sessionToken, channelID) ==
    IF authenticateSessionResult(sessionToken) # OK
    THEN authenticateSessionResult(sessionToken)
    ELSE ensureVoiceChannelLocked(channelID)

\* Mutation: the sweep waits twice as long.
cleanupVoicePresenceLocked_Late(rows) ==
    [k \in {x \in DOMAIN rows :
                rows[x].LastSeenAt >= now - 2 * (voicePresenceTTL + voicePresenceMaxLag)}
        |-> rows[k]]

\* DELETE FROM voice_presence WHERE last_seen_at < now - (TTL + lag)
cleanupVoicePresenceLocked(rows) ==
    [k \in {x \in DOMAIN rows :
                rows[x].LastSeenAt >= now - (voicePresenceTTL + voicePresenceMaxLag)}
        |-> rows[k]]

\* The rowid a new row gets: one more than the greatest in the table.
NextRowid(rows) ==
    IF DOMAIN rows = {} THEN 1
    ELSE 1 + CHOOSE r \in {rows[k].Rowid : k \in DOMAIN rows} :
                 \A k \in DOMAIN rows : rows[k].Rowid <= r

\* INSERT ... ON CONFLICT(client_public_key) DO UPDATE: joined_at is kept
\* when the row was already in this channel, everything else is replaced.
upsertVoicePresenceLocked(rows, identity, channelID, update) ==
    Put(rows, identity.PublicKey,
        [ChannelID |-> channelID,
         DisplayName |-> identity.DisplayName,
         JoinedAt |-> IF /\ identity.PublicKey \in DOMAIN rows
                         /\ rows[identity.PublicKey].ChannelID = channelID
                      THEN rows[identity.PublicKey].JoinedAt
                      ELSE now,
         LastSeenAt |-> now,
         Update |-> update,
         Rowid |-> IF identity.PublicKey \in DOMAIN rows
                   THEN rows[identity.PublicKey].Rowid
                   ELSE NextRowid(rows)])

VoiceParticipant(rows, publicKey) ==
    [PublicKey |-> publicKey,
     DisplayName |-> rows[publicKey].DisplayName,
     ChannelID |-> rows[publicKey].ChannelID,
     JoinedAt |-> rows[publicKey].JoinedAt,
     LastSeenAt |-> rows[publicKey].LastSeenAt,
     Update |-> rows[publicKey].Update]

\* The row ORDER BY joined_at ASC returns first: the rows of a channel are
\* read from the index on (channel_id, last_seen_at) and then sorted by
\* joined_at, which leaves rows of one joined_at in index order.
Earliest(rows, keys) ==
    CHOOSE k \in keys :
        \A x \in keys \ {k} :
            \/ rows[k].JoinedAt < rows[x].JoinedAt
            \/ /\ rows[k].JoinedAt = rows[x].JoinedAt
               /\ \/ rows[k].LastSeenAt < rows[x].LastSeenAt
                  \/ /\ rows[k].LastSeenAt = rows[x].LastSeenAt
                     /\ rows[k].Rowid < rows[x].Rowid

RECURSIVE Participants(_, _)
Participants(rows, keys) ==
    IF keys = {} THEN << >>
    ELSE <<VoiceParticipant(rows, Earliest(rows, keys))>>
            \o Participants(rows, keys \ {Earliest(rows, keys)})

VoiceFrame == <<handshake, clock, messages, streams, nextStream, cancels, closes,
                published>>

BeginVoiceJoin(sessionToken, channelID) ==
    LET result == VoiceGate(sessionToken, channelID)
    IN  /\ sessions' = authenticateSessionLocked(sessionToken)
        /\ last' = Response("BeginVoiceJoin", result, 0, sessionToken, << >>)
        /\ IF result = OK
           THEN /\ voice' = upsertVoicePresenceLocked(cleanupVoicePresenceLocked(voice),
                                SessionIdentity(sessionToken), channelID, JoinUpdate)
                /\ reply' = [NoReply EXCEPT !.Join =
                                [Identity |-> SessionIdentity(sessionToken),
                                 ChannelID |-> channelID,
                                 RoomName |-> VoiceRoomName(ServerID, channelID)]]
           ELSE /\ reply' = NoReply
                /\ UNCHANGED voice
        /\ UNCHANGED VoiceFrame

TouchVoicePresence(sessionToken, channelID, update) ==
    LET result == VoiceGate(sessionToken, channelID)
    IN  /\ sessions' = authenticateSessionLocked(sessionToken)
        /\ last' = Response("TouchVoicePresence", result, 0, sessionToken, << >>)
        /\ voice' = IF result = OK
                    THEN upsertVoicePresenceLocked(cleanupVoicePresenceLocked(voice),
                             SessionIdentity(sessionToken), channelID,
                             clampVoicePresenceUpdate(update))
                    ELSE voice
        /\ reply' = NoReply
        /\ UNCHANGED VoiceFrame

\* Mutation: the caller's departure empties the channel it was in.
LeaveVoiceChannel_Channel(sessionToken) ==
    LET result == authenticateSessionResult(sessionToken)
        rows == cleanupVoicePresenceLocked(voice)
        key == SessionIdentity(sessionToken).PublicKey
    IN  /\ sessions' = authenticateSessionLocked(sessionToken)
        /\ last' = Response("LeaveVoiceChannel", result, 0, sessionToken, << >>)
        /\ voice' = IF result # OK THEN voice
                    ELSE IF key \notin DOMAIN rows THEN rows
                    ELSE [k \in {x \in DOMAIN rows :
                                    rows[x].ChannelID # rows[key].ChannelID}
                            |-> rows[k]]
        /\ reply' = NoReply
        /\ UNCHANGED VoiceFrame

LeaveVoiceChannel(sessionToken) ==
    LET result == authenticateSessionResult(sessionToken)
    IN  /\ sessions' = authenticateSessionLocked(sessionToken)
        /\ last' = Response("LeaveVoiceChannel", result, 0, sessionToken, << >>)
        /\ voice' = IF result = OK
                    THEN Remove(cleanupVoicePresenceLocked(voice),
                                SessionIdentity(sessionToken).PublicKey)
                    ELSE voice
        /\ reply' = NoReply
        /\ UNCHANGED VoiceFrame

GetVoiceChannelState(sessionToken, channelID) ==
    LET result == VoiceGate(sessionToken, channelID)
        rows == cleanupVoicePresenceLocked(voice)
    IN  /\ sessions' = authenticateSessionLocked(sessionToken)
        /\ last' = Response("GetVoiceChannelState", result, 0, sessionToken, << >>)
        /\ IF result = OK
           THEN /\ voice' = rows
                /\ reply' = [NoReply EXCEPT !.Participants =
                                Participants(rows,
                                    {k \in DOMAIN rows : rows[k].ChannelID = channelID})]
           ELSE /\ reply' = NoReply
                /\ UNCHANGED voice
        /\ UNCHANGED VoiceFrame

----------------------------------------------------------------------------
\* The message store in use.  New() opens the database an earlier run left:
\* both clients have redeemed their invites, K1 a moment ago and K2 almost
\* thirty days ago, so that K2's session expires after the next second.

Opened == sessionTTL

OpenedInvites ==
    <<[AllowedClientPublicKey |-> "K1", UsedAt |-> <<Opened>>],
      [AllowedClientPublicKey |-> "K2", UsedAt |-> <<1>>]>>
OpenedMembers ==
    [k \in ClientKeys |-> normalizeDisplayName(ClientDisplayName(k), k)]
OpenedSessions ==
    <<[ClientPublicKey |-> "K1", ExpiresAt |-> Opened + sessionTTL],
      [ClientPublicKey |-> "K2", ExpiresAt |-> 1 + sessionTTL]>>

OpenedWith(time, inviteRows, memberRows, sessionRows) ==
    /\ serverCfg = DefaultServerConfig
    /\ now = time
    /\ ticks = 0
    /\ invites = inviteRows
    /\ challenges = << >>
    /\ members = memberRows
    /\ sessions = sessionRows
    /\ nextChallenge = 1
    /\ nextToken = 3
    /\ waiting = [c \in Callers |-> NoRequest]
    /\ returned = [c \in Callers |-> NoReturn]
    /\ last = Response("New", OK, 0, 0, << >>)
    /\ issued = << >>
    /\ minted = << >>
    /\ messages = << >>
    /\ streams = << >>
    /\ nextStream = 0
    /\ cancels = << >>
    /\ closes = << >>
    /\ voice = << >>
    /\ reply = NoReply
    /\ published = 0

OpenedAt(time) == OpenedWith(time, OpenedInvites, OpenedMembers, OpenedSessions)

InitOpened == OpenedAt(Opened)

\* The same database opened a second later, when K2's session has expired
\* and its row has not been swept yet.
InitExpired == OpenedAt(Opened + 1)

\* One second passes between two calls.
Second ==
    /\ ticks < MaxChatTicks
    /\ now' = now + 1
    /\ ticks' = ticks + 1
    /\ UNCHANGED <<serverCfg, invites, challenges, members, sessions,
                   nextChallenge, nextToken, waiting, returned, last, issued, minted>>
    /\ UNCHANGED room

\* Channel ids a caller may put in the path.
General == Str(0, "general", 7)
GeneralPadded == Str(1, "general", 7)
VoiceMainID == Str(0, "voice-main", 10)
UnknownChannelID == Str(0, "lobby", 5)
BlankChannelID == Str(1, "", 0)
TextChannelIDs == {General, GeneralPadded}
VoiceMainPadded == Str(2, "voice-main", 10)
ChannelIDs == TextChannelIDs \cup {VoiceMainID, VoiceMainPadded, UnknownChannelID,
                                   BlankChannelID}

\* Message contents a caller may send.
Hello == Str(0, "hello", 5)
HelloPadded == Str(2, "hello", 5)
Edited == Str(0, "edited", 6)
EmptyContent == Str(0, "", 0)
BlankContent == Str(3, "", 0)
Longest == Str(0, "long", maxMessageLength)
LongestPadded == Str(1, "long", maxMessageLength)
TooLong == Str(0, "long", maxMessageLength + 1)
Contents == {Hello, HelloPadded, Edited, EmptyContent, BlankContent,
             Longest, LongestPadded, TooLong}
ChatContents == {Hello, HelloPadded, Edited}

\* Session tokens a caller may send: blank, the two stored, one never issued.
SessionTokens == 0..3
MessageIDs == 1..(MaxMessages + 1)
Limits == {-1, 0, 1, 2, maxMessageHistoryLimit, maxMessageHistoryLimit + 1}

\* The members at work: both hold a session, and post to the text channel
\* under either spelling of its id.
CallCreateMessage ==
    /\ published < MaxEvents
    /\ \E token \in DOMAIN OpenedSessions, channelID \in TextChannelIDs,
          content \in ChatContents :
           CreateMessage(token, channelID, content)

CallEditMessage ==
    /\ published < MaxEvents
    /\ \E token \in DOMAIN OpenedSessions, channelID \in TextChannelIDs,
          messageID \in MessageIDs, content \in ChatContents :
           EditMessage(token, channelID, messageID, content)

CallListMessages ==
    \E token \in DOMAIN OpenedSessions, channelID \in TextChannelIDs, limit \in Limits :
        ListMessages(token, channelID, limit)

NextChat ==
    \/ Second
    \/ CallCreateMessage
    \/ CallEditMessage
    \/ CallListMessages

SpecChat == InitOpened /\ [][NextChat]_vars

\* One member writing to the text channel, with every kind of content.
CallCreateMessageWithContent ==
    /\ published < MaxEvents
    /\ \E content \in Contents : CreateMessage(1, General, content)

CallEditMessageWithContent ==
    /\ published < MaxEvents
    /\ \E messageID \in MessageIDs, content \in Contents :
           EditMessage(1, General, messageID, content)

NextContent ==
    \/ Second
    \/ CallCreateMessageWithContent
    \/ CallEditMessageWithContent

SpecContent == InitOpened /\ [][NextContent]_vars

\* Subscribers and a writer on the text channel.  Each side spells the
\* channel id with or without white space around it, or names the voice
\* channel; the writer also sends content that is refused.
StreamChannelIDs == TextChannelIDs \cup {VoiceMainID}
StreamContents == {Hello, BlankContent}

CallSubscribeChannelEvents ==
    \E token \in DOMAIN OpenedSessions, channelID \in StreamChannelIDs :
        SubscribeChannelEvents(token, channelID)

CallCancel == \E streamID \in DOMAIN cancels : cancel(streamID)

CallReceive == \E streamID \in DOMAIN cancels : Receive(streamID)

WriterCreates ==
    /\ published < MaxEvents
    /\ \E channelID \in StreamChannelIDs, content \in StreamContents :
           CreateMessage(1, channelID, content)

WriterEdits ==
    /\ published < MaxEvents
    /\ \E channelID \in StreamChannelIDs, messageID \in MessageIDs,
          content \in StreamContents :
           EditMessage(1, channelID, messageID, content)

NextStreams ==
    \/ CallSubscribeChannelEvents
    \/ CallCancel
    \/ CallReceive
    \/ WriterCreates
    \/ WriterEdits

SpecStreams == InitOpened /\ [][NextStreams]_vars

\* Subscribers that are connected before a writer publishes more events than
\* a stream can buffer, and that take events off their streams at their own
\* pace.
BurstSubscribes ==
    /\ published = 0
    /\ \E channelID \in TextChannelIDs : SubscribeChannelEvents(1, channelID)

BurstReceives == \E streamID \in DOMAIN cancels : Receive(streamID)

BurstCreates ==
    /\ published < MaxBurst
    /\ messages = << >>
    /\ \E channelID \in TextChannelIDs : CreateMessage(1, channelID, Hello)

BurstEdits ==
    /\ published < MaxBurst
    /\ \E channelID \in TextChannelIDs : EditMessage(1, channelID, 1, Hello)

NextFanout ==
    \/ BurstSubscribes
    \/ BurstReceives
    \/ BurstCreates
    \/ BurstEdits

SpecFanout == InitOpened /\ [][NextFanout]_vars

\* Every message and voice call, with every kind of session token and of
\* channel id, on a server that comes to hold a message, a subscription and
\* presence rows.
Updates == {VoicePresenceUpdate(17, -1, TRUE, FALSE, FALSE)}

RoomListMessages ==
    \E token \in SessionTokens, channelID \in ChannelIDs :
        ListMessages(token, channelID, 1)

RoomCreateMessage ==
    /\ published < MaxRoomEvents
    /\ \E token \in SessionTokens, channelID \in ChannelIDs :
           CreateMessage(token, channelID, Hello)

RoomEditMessage ==
    /\ published < MaxRoomEvents
    /\ \E token \in SessionTokens, channelID \in ChannelIDs :
           EditMessage(token, channelID, 1, Edited)

RoomSubscribeChannelEvents ==
    /\ nextStream < MaxRoomStreams
    /\ \E token \in SessionTokens, channelID \in ChannelIDs :
           SubscribeChannelEvents(token, channelID)

RoomBeginVoiceJoin ==
    \E token \in SessionTokens, channelID \in ChannelIDs :
        BeginVoiceJoin(token, channelID)

RoomTouchVoicePresence ==
    \E token \in SessionTokens, channelID \in ChannelIDs, update \in Updates :
        TouchVoicePresence(token, channelID, update)

RoomLeaveVoiceChannel ==
    \E token \in SessionTokens : LeaveVoiceChannel(token)

RoomGetVoiceChannelState ==
    \E token \in SessionTokens, channelID \in ChannelIDs :
        GetVoiceChannelState(token, channelID)

NextRooms ==
    \/ RoomListMessages
    \/ RoomCreateMessage
    \/ RoomEditMessage
    \/ RoomSubscribeChannelEvents
    \/ RoomBeginVoiceJoin
    \/ RoomTouchVoicePresence
    \/ RoomLeaveVoiceChannel
    \/ RoomGetVoiceChannelState

SpecRooms == InitExpired /\ [][NextRooms]_vars

\* A server whose configuration file names two text channels, with both
\* members at work: they post to either channel, edit each other's messages
\* under every spelling of the channel ids, and one of them listens.
RandomChannel == [ID |-> "random", Type |-> "text"]
TwoRoomServerConfig ==
    [Channels |-> <<TextChannel, RandomChannel, VoiceMain>>, AdminPublicKeys |-> {}]
Random == Str(0, "random", 6)

InitEdit ==
    /\ serverCfg = TwoRoomServerConfig
    /\ now = Opened
    /\ ticks = 0
    /\ invites = OpenedInvites
    /\ challenges = << >>
    /\ members = OpenedMembers
    /\ sessions = OpenedSessions
    /\ nextChallenge = 1
    /\ nextToken = 3
    /\ waiting = [c \in Callers |-> NoRequest]
    /\ returned = [c \in Callers |-> NoReturn]
    /\ last = Response("New", OK, 0, 0, << >>)
    /\ issued = << >>
    /\ minted = << >>
    /\ messages = << >>
    /\ streams = << >>
    /\ nextStream = 0
    /\ cancels = << >>
    /\ closes = << >>
    /\ voice = << >>
    /\ reply = NoReply
    /\ published = 0

EditChannelIDs == {General, GeneralPadded, Random}
EditTokens == {0} \cup DOMAIN OpenedSessions
EditMessageIDs == 1..MaxMessages
EditContents == {Edited, BlankContent}

EditCreateMessage ==
    /\ published < MaxEvents
    /\ \E token \in DOMAIN OpenedSessions, channelID \in EditChannelIDs :
           CreateMessage(token, channelID, Hello)

EditEditMessage ==
    /\ published <= MaxEvents
    /\ \E token \in EditTokens, channelID \in EditChannelIDs \cup {VoiceMainID},
          messageID \in EditMessageIDs, content \in EditContents :
           EditMessage(token, channelID, messageID, content)

EditSubscribeChannelEvents ==
    /\ nextStream < MaxRoomStreams
    /\ \E channelID \in EditChannelIDs : SubscribeChannelEvents(1, channelID)

NextEdit ==
    \/ Second
    \/ EditCreateMessage
    \/ EditEditMessage
    \/ EditSubscribeChannelEvents

SpecEdit == InitEdit /\ [][NextEdit]_vars

\* Event-stream connections: clients connect with a good or a blank token,
\* upgrades and writes succeed or fail, clients go away, and a member posts
\* to the text channel meanwhile.  A handler that is returning runs its
\* deferred calls.
Outcomes == {TRUE, FALSE}

HandlerSubscribes ==
    \E token \in {0, 1}, channelID \in TextChannelIDs :
        SubscribeChannelEvents(token, channelID)

HandlerUpgrades == \E streamID \in DOMAIN cancels, ok \in Outcomes : Upgrade(streamID, ok)

HandlerWritesReady ==
    \E streamID \in DOMAIN cancels, ok \in Outcomes : WriteReady(streamID, ok)

HandlerWritesEvent ==
    \E streamID \in DOMAIN cancels, ok \in Outcomes : WriteEvent(streamID, ok)

HandlerDone == \E streamID \in DOMAIN cancels : Done(streamID)

HandlerReturns == \E streamID \in DOMAIN cancels : DeferredCancel(streamID)

HandlerCreates ==
    /\ published < MaxEvents
    /\ \E channelID \in TextChannelIDs : CreateMessage(1, channelID, Hello)

NextHandler ==
    \/ HandlerSubscribes
    \/ HandlerUpgrades
    \/ HandlerWritesReady
    \/ HandlerWritesEvent
    \/ HandlerDone
    \/ HandlerReturns
    \/ HandlerCreates

SpecHandler ==
    /\ InitOpened
    /\ [][NextHandler]_vars
    /\ \A streamID \in 1..MaxStreams : WF_vars(DeferredCancel(streamID))

\* A member whose session is about to expire subscribes to the text channel
\* and keeps its subscription while seconds pass and another member posts.
Lapsing == CHOOSE t \in DOMAIN OpenedSessions : OpenedSessions[t].ClientPublicKey = "K2"

LapseSubscribes ==
    \E channelID \in TextChannelIDs : SubscribeChannelEvents(Lapsing, channelID)

LapseCreates ==
    /\ published < MaxEvents
    /\ \E channelID \in TextChannelIDs : CreateMessage(1, channelID, Hello)

LapseReceives == \E streamID \in DOMAIN cancels : Receive(streamID)

LapseCancels == \E streamID \in DOMAIN cancels : cancel(streamID)

NextLapse ==
    \/ Second
    \/ LapseSubscribes
    \/ LapseCreates
    \/ LapseReceives
    \/ LapseCancels

SpecLapse == InitOpened /\ [][NextLapse]_vars

----------------------------------------------------------------------------
\* The voice tracker in use.  New() opens a database in which both clients
\* redeemed their invites a moment ago, so that both sessions outlive the
\* presence rows.

JoinedInvites ==
    <<[AllowedClientPublicKey |-> "K1", UsedAt |-> <<1>>],
      [AllowedClientPublicKey |-> "K2", UsedAt |-> <<1>>]>>
JoinedSessions ==
    <<[ClientPublicKey |-> "K1", ExpiresAt |-> 1 + sessionTTL],
      [ClientPublicKey |-> "K2", ExpiresAt |-> 1 + sessionTTL]>>

InitJoined == OpenedWith(1, JoinedInvites, OpenedMembers, JoinedSessions)

\* Time passes between two calls: a second, or as long as a row may go
\* untouched.
VoiceTickSteps == {1, voicePresenceTTL + voicePresenceMaxLag}
VoiceTick ==
    /\ ticks < MaxVoiceTicks
    /\ \E d \in VoiceTickSteps : now' = now + d
    /\ ticks' = ticks + 1
    /\ UNCHANGED <<serverCfg, invites, challenges, members, sessions,
                   nextChallenge, nextToken, waiting, returned, last, issued, minted>>
    /\ UNCHANGED room

VoiceChannelIDs == {VoiceMainID, VoiceMainPadded}
VoiceUpdates == Updates
\* The tokens of the two clients, and a call that carries none.
VoiceTokens == {0} \cup DOMAIN JoinedSessions

\* Rowids grow with every row written after a departure; the calls that write
\* rows stop once the table has handed out MaxVoiceRowid of them.
RowidsLeft == \A k \in DOMAIN voice : voice[k].Rowid < MaxVoiceRowid

CallBeginVoiceJoin ==
    /\ RowidsLeft
    /\ \E token \in VoiceTokens, channelID \in VoiceChannelIDs :
           BeginVoiceJoin(token, channelID)

CallTouchVoicePresence ==
    /\ RowidsLeft
    /\ \E token \in VoiceTokens, channelID \in VoiceChannelIDs,
          update \in VoiceUpdates :
           TouchVoicePresence(token, channelID, update)

CallLeaveVoiceChannel ==
    \E token \in VoiceTokens : LeaveVoiceChannel(token)

CallGetVoiceChannelState ==
    \E token \in VoiceTokens, channelID \in VoiceChannelIDs :
        GetVoiceChannelState(token, channelID)

NextVoice ==
    \/ VoiceTick
    \/ CallBeginVoiceJoin
    \/ CallTouchVoicePresence
    \/ CallLeaveVoiceChannel
    \/ CallGetVoiceChannelState

SpecVoice == InitJoined /\ [][NextVoice]_vars

\* Two clients in the rooms at one instant, reporting counts below, at and
\* above the range the tracker stores.
VoiceAfkID == Str(0, "voice-afk", 9)
VoiceAfkPadded == Str(1, "voice-afk", 9)
PairChannelIDs == {VoiceMainID, VoiceMainPadded, VoiceAfkID, VoiceAfkPadded}
PairUpdates ==
    Updates \cup {VoicePresenceUpdate(2, 1, FALSE, TRUE, TRUE),
                  VoicePresenceUpdate(16, 0, FALSE, FALSE, FALSE)}

PairBeginVoiceJoin ==
    /\ RowidsLeft
    /\ \E token \in DOMAIN JoinedSessions, channelID \in PairChannelIDs :
           BeginVoiceJoin(token, channelID)

PairTouchVoicePresence ==
    /\ RowidsLeft
    /\ \E token \in DOMAIN JoinedSessions, channelID \in PairChannelIDs,
          update \in PairUpdates :
           TouchVoicePresence(token, channelID, update)

PairLeaveVoiceChannel ==
    \E token \in DOMAIN JoinedSessions : LeaveVoiceChannel(token)

PairGetVoiceChannelState ==
    \E token \in DOMAIN JoinedSessions, channelID \in PairChannelIDs :
        GetVoiceChannelState(token, channelID)

NextPair ==
    \/ PairBeginVoiceJoin
    \/ PairTouchVoicePresence
    \/ PairLeaveVoiceChannel
    \/ PairGetVoiceChannelState

SpecPair == InitJoined /\ [][NextPair]_vars

----------------------------------------------------------------------------
\* Restart.  The process ends and New() runs again on the same data
\* directory: the tables and the configuration file are as they were left,
\* the challenge map and the stream registry are made anew, and whatever the
\* old process had in flight or had handed out is gone with it.

\* Mutation: the pending challenges come back with the tables.
Restart_KeepChallenges ==
    /\ ticks < MaxRestarts
    /\ now' = now + 1
    /\ ticks' = ticks + 1
    /\ streams' = << >>
    /\ nextStream' = 0
    /\ cancels' = << >>
    /\ closes' = << >>
    /\ waiting' = [c \in Callers |-> NoRequest]
    /\ last' = Response("New", OK, 0, 0, << >>)
    /\ reply' = NoReply
    /\ UNCHANGED <<serverCfg, invites, challenges, members, sessions, nextChallenge,
                   nextToken, returned, issued, minted, messages, voice, published>>

Restart ==
    /\ ticks < MaxRestarts
    /\ now' = now + 1
    /\ ticks' = ticks + 1
    /\ challenges' = << >>
    /\ streams' = << >>
    /\ nextStream' = 0
    /\ cancels' = << >>
    /\ closes' = << >>
    /\ waiting' = [c \in Callers |-> NoRequest]
    /\ last' = Response("New", OK, 0, 0, << >>)
    /\ reply' = NoReply
    /\ UNCHANGED <<serverCfg, invites, members, sessions, nextChallenge, nextToken,
                   returned, issued, minted, messages, voice, published>>

\* The database the first run opens: K1 has redeemed its invite and holds a
\* session, K2 has been invited and has not connected yet.
RestartInvites ==
    <<[AllowedClientPublicKey |-> "K1", UsedAt |-> <<1>>],
      [AllowedClientPublicKey |-> "K2", UsedAt |-> NULL]>>
RestartMembers == [k \in {"K1"} |-> OpenedMembers[k]]
RestartSessions == <<[ClientPublicKey |-> "K1", ExpiresAt |-> 1 + sessionTTL]>>

InitRestart == OpenedWith(1, RestartInvites, RestartMembers, RestartSessions)

RestartBeginConnect ==
    /\ \E i \in DOMAIN invites : BeginConnect(i)
    /\ UNCHANGED <<race, room>>

\* An invited client answers a challenge it was given, be it by this run of
\* the server or by the one before.
RestartFinishConnect ==
    /\ \E i \in DOMAIN issued : \E n \in DOMAIN issued[i] :
          FinishConnect(HonestFinishRequest(i, invites[i].AllowedClientPublicKey,
                            issued[i][n].Challenge,
                            ClientDisplayName(invites[i].AllowedClientPublicKey)))
    /\ UNCHANGED <<race, room>>

RestartCreateMessage ==
    /\ published < MaxRoomEvents
    /\ \E token \in DOMAIN sessions : CreateMessage(token, General, Hello)

RestartSubscribeChannelEvents ==
    /\ nextStream < MaxRoomStreams
    /\ \E token \in DOMAIN sessions : SubscribeChannelEvents(token, General)

RestartBeginVoiceJoin ==
    \E token \in DOMAIN sessions : BeginVoiceJoin(token, VoiceMainID)

NextRestart ==
    \/ Restart
    \/ RestartBeginConnect
    \/ RestartFinishConnect
    \/ RestartCreateMessage
    \/ RestartSubscribeChannelEvents
    \/ RestartBeginVoiceJoin

SpecRestart == InitRestart /\ [][NextRestart]_vars

----------------------------------------------------------------------------
\* Properties.

HasUnused(inviteID) ==
    inviteID \in DOMAIN invites /\ invites[inviteID].UsedAt = NULL

\* The transition is a FinishConnect of req that returned success.
FinishSucceeds(req) ==
    /\ last'.op = "FinishConnect"
    /\ last'.code = "ok"
    /\ FinishConnect(req)

Redemptions(inviteID) ==
    IF inviteID \in DOMAIN minted THEN Cardinality(minted[inviteID]) ELSE 0

\* C1: single redemption.  Of the FinishConnect calls for one invite that ran
\* concurrently and carried the bound key, the latest unexpired challenge and a
\* valid signature, exactly one succeeded and every other one returned
\* invite_used.
C1_SingleRedemption ==
    \A i \in DOMAIN invites :
        LET racers == {c \in Callers : returned[c].InviteID = i /\ returned[c].Current}
        IN  /\ Redemptions(i) <= 1
            /\ racers # {} =>
                  /\ Redemptions(i) = 1
                  /\ \A c \in racers : returned[c].Code \in {"ok", "invite_used"}
                  /\ Cardinality({c \in racers : returned[c].Code = "ok"}) <= 1

\* Two concurrent calls for one invite have returned: a winner and a loser.
C1_Witness ==
    \E c, d \in Callers :
        /\ c # d
        /\ returned[c].InviteID = returned[d].InviteID
        /\ returned[c].Current /\ returned[d].Current
        /\ returned[c].Code = "ok"
        /\ returned[d].Code = "invite_used"

\* C2: challenge binding.  A FinishConnect succeeds only with a signature made
\* by the invite's bound key over exactly the challenge of the most recent
\* BeginConnect for that invite, the invite's id and this server's fingerprint,
\* and an invite is marked used by nothing but such a call.
C2_ChallengeBinding ==
    [][/\ (last'.op = "FinishConnect" /\ last'.code = "ok") =>
            \A req \in FinishRequests :
                FinishConnect(req) =>
                    req.Signature =
                        Sign(invites[req.InviteID].AllowedClientPublicKey,
                             <<LatestIssued(req.InviteID).Challenge, req.InviteID,
                               ServerFingerprint>>)
       /\ \A i \in DOMAIN invites :
            (invites[i].UsedAt = NULL /\ invites'[i].UsedAt # NULL) =>
                \E req \in FinishRequests : req.InviteID = i /\ FinishSucceeds(req)
      ]_vars

\* An invite was redeemed after BeginConnect had replaced its challenge.
C2_Witness ==
    /\ last.op = "FinishConnect"
    /\ last.code = "ok"
    /\ last.invite \in DOMAIN issued
    /\ Len(issued[last.invite]) >= 2

\* The challenges BeginConnect issued for the invite before the latest one.
Superseded(inviteID) ==
    {issued[inviteID][n].Challenge : n \in 1..(Len(issued[inviteID]) - 1)}

\* The invites that are unused and have a pending challenge that has not expired.
Answerable ==
    {i \in DOMAIN challenges :
        invites[i].UsedAt = NULL /\ ~(now > challenges[i].ExpiresAt)}

\* C3: only the latest challenge is valid.  After a second BeginConnect for an
\* invite the one pending challenge is the second, and a FinishConnect that
\* presents the first with a signature of any kind, the invited client's
\* correct one included, is rejected with 401 challenge_mismatch and changes
\* nothing.
C3_LatestChallengeOnly ==
    [][/\ \A i \in DOMAIN challenges' : challenges'[i] = issued'[i][Len(issued'[i])]
       /\ last'.op = "FinishConnect" =>
            \A i \in Answerable : \A c \in Superseded(i) :
                \A req \in RequestsFor(i, invites[i].AllowedClientPublicKey, c) :
                    FinishConnect(req)
                    => /\ last'.status = 401
                       /\ last'.code = "challenge_mismatch"
                       /\ UNCHANGED <<invites, challenges, members, sessions>>
      ]_vars

\* The first challenge of an invite was presented after a second BeginConnect.
C3_Witness ==
    /\ last.op = "FinishConnect"
    /\ last.code = "challenge_mismatch"
    /\ \E i \in DOMAIN challenges :
          /\ Len(issued[i]) = 2
          /\ challenges[i] = issued[i][2]
          /\ invites[i].UsedAt = NULL

\* Requests with the bound key and the pending challenge of the invite whose
\* signature is well formed but was made by another keypair.
WrongKeypair(inviteID) ==
    {req \in RequestsFor(inviteID, invites[inviteID].AllowedClientPublicKey,
                         challenges[inviteID].Challenge) :
        req.Signature.raw = "sig" /\ req.Signature.signer # req.ClientPublicKey}

\* C4: a FinishConnect whose signature was made by the wrong keypair is
\* rejected with 401 invalid_signature; the invite stays unused, the pending
\* challenge stays in place, and the invited client's own answer to that same
\* challenge is accepted afterwards.
C4_WrongKeypairRejected ==
    [][last'.op = "FinishConnect" =>
          \A i \in Answerable : \A req \in WrongKeypair(i) :
              FinishConnect(req)
              => /\ last'.status = 401
                 /\ last'.code = "invalid_signature"
                 /\ invites'[i].UsedAt = NULL
                 /\ i \in DOMAIN challenges'
                 /\ challenges'[i] = challenges[i]
                 /\ (FinishConnectResult(
                        HonestFinishRequest(i, req.ClientPublicKey, req.Challenge,
                                            Blank)) = OK)'
      ]_vars

\* A bad signature was refused while the invite's challenge is pending.
C4_Witness ==
    /\ last.op = "FinishConnect"
    /\ last.status = 401
    /\ last.code = "invalid_signature"
    /\ \E i \in DOMAIN challenges :
          invites[i].UsedAt = NULL /\ ~(now > challenges[i].ExpiresAt)

ChannelTypes(channels) == {channels[n].Type : n \in DOMAIN channels}

\* The invited client's answer to the pending challenge of an unused invite.
HappyPathRequests ==
    {HonestFinishRequest(i, invites[i].AllowedClientPublicKey, challenges[i].Challenge,
                         ClientDisplayName(invites[i].AllowedClientPublicKey)) :
        i \in Answerable}

\* C5 as the specification states it: a successful handshake returns a channel
\* list with at least one text channel and at least one voice channel.
C5_AsStated ==
    (last.op = "FinishConnect" /\ last.code = "ok")
    => /\ last.token # 0
       /\ invites[last.invite].UsedAt # NULL
       /\ {"text", "voice"} \subseteq ChannelTypes(last.channels)

\* C5: the happy path.  The invited client's signed answer to the pending
\* challenge is accepted; a successful FinishConnect has marked the invite
\* used and returns a non-empty session token that is stored, together with
\* the configured channel list, which is not empty and which has a text and a
\* voice channel when the server runs on its generated default configuration.
C5_HappyPath ==
    /\ \A req \in HappyPathRequests : FinishConnectResult(req) = OK
    /\ (last.op = "FinishConnect" /\ last.code = "ok")
       => /\ last.token # 0
          /\ last.token \in DOMAIN sessions
          /\ invites[last.invite].UsedAt # NULL
          /\ last.channels = serverCfg.Channels
          /\ Len(last.channels) >= 1
          /\ serverCfg = DefaultServerConfig
               => {"text", "voice"} \subseteq ChannelTypes(last.channels)

\* A handshake has succeeded on the default configuration.
C5_Witness ==
    /\ last.op = "FinishConnect"
    /\ last.code = "ok"
    /\ last.status = 200
    /\ serverCfg = DefaultServerConfig

C7_SessionsFromRedemption ==
    /\ \A t \in DOMAIN sessions :
          \E i \in DOMAIN minted :
              /\ t \in minted[i]
              /\ invites[i].UsedAt # NULL
              /\ sessions[t].ClientPublicKey = invites[i].AllowedClientPublicKey
    /\ \A i \in DOMAIN invites :
          /\ Redemptions(i) <= 1
          /\ invites[i].UsedAt = NULL => Redemptions(i) = 0

\* Two invites were redeemed and both sessions are stored.
C7_Witness ==
    /\ Cardinality(DOMAIN sessions) = 2
    /\ \A i \in DOMAIN invites : invites[i].UsedAt # NULL /\ Redemptions(i) = 1

\* The timestamp parsed, and it lies more than two minutes from the server's clock.
Stale(issuedAt) ==
    /\ issuedAt.raw = "rfc3339"
    /\ \/ issuedAt.time > now + 120
       \/ issuedAt.time < now - 120

\* C8: an admin request whose issuedAt is more than two minutes from the
\* server's current time, in either direction, is rejected whether or not its
\* signature is valid, and creates no invite.
C8_StaleAdminRequestRejected ==
    [][/\ (last'.op = "CreateInviteByAdminClient"
            /\ (last'.status = 200 \/ invites' # invites)) =>
            \A req \in AdminCreateRequests :
                CreateInviteByAdminClient(req) => ~Stale(req.IssuedAt)
       /\ (last'.op = "ListInvitesByAdminClient"
            /\ (last'.status = 200 \/ invites' # invites)) =>
            \A req \in AdminListRequests :
                ListInvitesByAdminClient(req) => ~Stale(req.IssuedAt)
      ]_vars

\* A configured admin's request was turned down for its timestamp.
C8_Witness ==
    /\ last.op = "CreateInviteByAdminClient"
    /\ last.status = 401
    /\ last.code = "stale_request"
    /\ serverCfg.AdminPublicKeys # {}

\* The request comes from a configured admin key, within the window, with that
\* key's signature over the admin key, the client key and issuedAt.
Authorized(req) ==
    /\ req.AdminPublicKey \in serverCfg.AdminPublicKeys
    /\ req.IssuedAt.raw = "rfc3339"
    /\ ~Stale(req.IssuedAt)
    /\ req.Signature =
          Sign(req.AdminPublicKey,
               <<req.AdminPublicKey, req.ClientPublicKey, req.IssuedAt>>)

\* C9: the admin gate.  CreateInviteByAdminClient stores an invite only when
\* the admin key is in the configured list, issuedAt is within the window and
\* the signature verifies over the admin key, the client key and issuedAt; in
\* every other case no invite is stored; and no admin operation creates a
\* session or a member.
C9_AdminGate ==
    [][/\ (last'.op = "CreateInviteByAdminClient"
            /\ (last'.status = 200 \/ invites' # invites)) =>
            \A req \in AdminCreateRequests :
                CreateInviteByAdminClient(req)
                => /\ Authorized(req)
                   /\ DOMAIN invites' = DOMAIN invites \cup {last'.invite}
                   /\ last'.invite \notin DOMAIN invites
                   /\ invites'[last'.invite] =
                         [AllowedClientPublicKey |-> req.ClientPublicKey, UsedAt |-> NULL]
       /\ last'.op = "ListInvitesByAdminClient" => invites' = invites
       /\ last'.op \in {"CreateInviteByAdminClient", "ListInvitesByAdminClient"}
            => UNCHANGED <<sessions, members, challenges>>
      ]_vars

\* An admin invite was created while a session of an earlier handshake exists.
C9_Witness ==
    /\ last.op = "CreateInviteByAdminClient"
    /\ last.code = "ok"
    /\ last.invite = 2
    /\ sessions # << >>

AuthenticateFailed == last.op = "AuthenticateSession" /\ last.status # 200

\* C10 as the specification states it: a failed authentication has the code
\* invalid_session_token in all three cases, the missing token included.
C10_AsStated ==
    AuthenticateFailed => last.code = "invalid_session_token"

\* C10: a token that was never issued and a token whose session has expired
\* get the same answer, 401 invalid_session_token, so the answer does not tell
\* the two apart; a request without a token gets 401 missing_session_token.
C10_SameCodeForUnknownAndExpired ==
    /\ AuthenticateFailed =>
          /\ last.status = 401
          /\ last.token # 0 => last.code = "invalid_session_token"
          /\ last.token = 0 => last.code = "missing_session_token"
    /\ \A t, u \in TokenInputs \ {0} :
          (authenticateSessionResult(t) # OK /\ authenticateSessionResult(u) # OK)
          => authenticateSessionResult(t) = authenticateSessionResult(u)
    /\ \A t \in DOMAIN sessions :
          sessions[t].ExpiresAt <= now
          => authenticateSessionResult(t) = newAPIError(401, "invalid_session_token")

\* A token that was issued has been refused after its session expired.
C10_Witness ==
    /\ AuthenticateFailed
    /\ last.token \in 1..(nextToken - 1)
    /\ now >= sessionTTL

\* The sessions whose expiresAt has not passed yet.
Unexpired == {t \in DOMAIN sessions : sessions[t].ExpiresAt > now}

\* C11: session expiry with lazy sweeping.  A session expires 30 days after
\* it was minted and its expiry never moves; a token authenticates exactly
\* while the clock is strictly before expiresAt; a token that is gone never
\* comes back; and every authenticate call with a non-empty token leaves
\* exactly the unexpired sessions in the store.
C11_SessionExpiry ==
    [][/\ \A token \in TokenInputs :
            AuthenticateSession(token)
            => /\ last'.status = 200 <=> token \in Unexpired
               /\ token # 0 => /\ DOMAIN sessions' = Unexpired
                               /\ \A t \in Unexpired : sessions'[t] = sessions[t]
       /\ \A t \in DOMAIN sessions' :
            IF t \in DOMAIN sessions
            THEN sessions'[t] = sessions[t]
            ELSE /\ sessions'[t].ExpiresAt = now + 30 * 24 * 3600
                 /\ t = nextToken
       /\ nextToken' >= nextToken
      ]_vars

\* A token was accepted one second before its session expires, and another
\* session is stored next to it.
C11_Witness ==
    /\ last.op = "AuthenticateSession"
    /\ last.status = 200
    /\ last.token \in DOMAIN sessions
    /\ sessions[last.token].ExpiresAt = now + 1
    /\ Cardinality(DOMAIN sessions) = 2

\* A step in which EditMessage succeeded.
Edits == last'.op = "EditMessage" /\ published' # published

\* A step in which CreateMessage succeeded.
Creates == last'.op = "CreateMessage" /\ published' # published

\* C13 (as stated): after every successful EditMessage the edited message has
\* updatedAt >= createdAt, updatedAt differs from createdAt, and updatedAt is
\* strictly later than it was before the edit.
C13_MonotonicEdit ==
    [][Edits =>
        \A n \in DOMAIN messages :
            messages[n].ID = reply'.Message.ID =>
                /\ messages'[n].UpdatedAt >= messages'[n].CreatedAt
                /\ messages'[n].UpdatedAt # messages'[n].CreatedAt
                /\ messages'[n].UpdatedAt > messages[n].UpdatedAt]_vars

\* C14: every stored message has updatedAt >= createdAt; a new row has both
\* equal to the current time, and a row that stays keeps createdAt and has its
\* updatedAt either kept or replaced by the current time.
C14_UpdatedNotBeforeCreated ==
    [][/\ \A n \in DOMAIN messages' :
            messages'[n].UpdatedAt >= messages'[n].CreatedAt
       /\ \A n \in DOMAIN messages' \ DOMAIN messages :
            messages'[n].CreatedAt = now /\ messages'[n].UpdatedAt = now
       /\ \A n \in DOMAIN messages :
            /\ n \in DOMAIN messages'
            /\ messages'[n].CreatedAt = messages[n].CreatedAt
            /\ messages'[n].UpdatedAt \in {messages[n].UpdatedAt, now}]_vars

\* A message created in one second, edited in a later one, next to one that
\* was never edited.
C14_Witness ==
    /\ last.op = "EditMessage" /\ last.status = 200
    /\ \E n \in DOMAIN messages : messages[n].UpdatedAt > messages[n].CreatedAt
    /\ \E n \in DOMAIN messages : messages[n].UpdatedAt = messages[n].CreatedAt

\* Content that is empty after trimming, or longer than the maximum.
Rejected(content) == content.size = 0 \/ content.size > 4000

\* The content without its surrounding white space.
Trimmed(content) == [pad |-> 0, text |-> content.text, size |-> content.size]

\* Nothing was stored and nothing was broadcast in this step.
NothingWritten ==
    messages' = messages /\ streams' = streams /\ published' = published

\* C15: every stored content is trimmed, non-empty and at most 4000 long; a
\* successful CreateMessage or EditMessage stores the trimmed input; one whose
\* content is empty after trimming or too long fails with 'invalid_message'
\* (the session and the channel being in order), stores nothing and
\* broadcasts nothing.
C15_ContentInvariant ==
    [][/\ \A n \in DOMAIN messages' :
            /\ messages'[n].ContentMarkdown.pad = 0
            /\ messages'[n].ContentMarkdown.size \in 1..4000
       /\ \A content \in Contents :
            /\ CreateMessage(1, General, content) =>
                  IF Rejected(content)
                  THEN last'.code = "invalid_message" /\ NothingWritten
                  ELSE /\ last'.status = 200
                       /\ messages'[Len(messages')].ContentMarkdown = Trimmed(content)
                       /\ reply'.Message.ContentMarkdown = Trimmed(content)
            /\ \A messageID \in MessageIDs :
                  EditMessage(1, General, messageID, content) =>
                      IF Rejected(content)
                      THEN last'.code = "invalid_message" /\ NothingWritten
                      ELSE last'.status = 200 =>
                            /\ \E n \in DOMAIN messages' :
                                  /\ messages'[n].ID = messageID
                                  /\ messages'[n].ContentMarkdown = Trimmed(content)
                            /\ reply'.Message.ContentMarkdown = Trimmed(content)]_vars

\* A content of exactly the maximum length is stored next to a short one, and
\* the call after them was refused for its content.
C15_Witness ==
    /\ last.code = "invalid_message"
    /\ \E n \in DOMAIN messages : messages[n].ContentMarkdown = Longest
    /\ \E n \in DOMAIN messages : messages[n].ContentMarkdown = Hello

\* The streams kept in a registry, whatever channel id they are kept under.
Kept(registry) == UNION {DOMAIN registry[c] : c \in DOMAIN registry}

\* C18: the first call of a subscription's cancel function takes its stream
\* out of the registry and closes it once, leaving every other stream as it
\* was; every later call changes nothing and closes nothing, and no stream is
\* ever closed twice.
C18_CancelIdempotent ==
    [][\A streamID \in DOMAIN cancels :
          /\ closes'[streamID] <= 1
          /\ cancels'[streamID].Calls # cancels[streamID].Calls =>
                /\ cancels[streamID].Calls = 0 =>
                      /\ streamID \in Kept(streams)
                      /\ streamID \notin Kept(streams')
                      /\ closes[streamID] = 0 /\ closes'[streamID] = 1
                      /\ \A other \in DOMAIN cancels \ {streamID} :
                            /\ closes'[other] = closes[other]
                            /\ other \in Kept(streams) =>
                                  /\ cancels[other].ChannelID \in DOMAIN streams'
                                  /\ other \in DOMAIN streams'[cancels[other].ChannelID]
                                  /\ streams'[cancels[other].ChannelID][other]
                                        = streams[cancels[other].ChannelID][other]
                /\ cancels[streamID].Calls > 0 =>
                      /\ streams' = streams
                      /\ closes' = closes
                      /\ UNCHANGED <<messages, sessions, nextStream, published>>]_vars

\* A subscription cancelled twice whose channel has since got another
\* subscription, which is still registered and holds an event.
C18_Witness ==
    /\ last.op = "cancel"
    /\ 1 \in DOMAIN cancels /\ 2 \in DOMAIN cancels
    /\ cancels[1].Calls = 2 /\ closes[1] = 1
    /\ cancels[2].ChannelID = cancels[1].ChannelID
    /\ cancels[2].Calls = 0
    /\ 2 \in Kept(streams)
    /\ streams[cancels[2].ChannelID][2] # << >>

\* Two channel ids that name the same configured channel.
SameChannel(a, b) == a.text = b.text

\* The event a successful CreateMessage or EditMessage step announces.
Announced ==
    ChannelEvent(IF last'.op = "CreateMessage" THEN "message.created"
                                                ELSE "message.updated",
                 reply'.Message)

\* A step in which CreateMessage or EditMessage failed.
WriteFails ==
    /\ last'.op \in {"CreateMessage", "EditMessage"}
    /\ last'.status # 200
    /\ cancels' = cancels

\* C16 (as stated): a successful CreateMessage or EditMessage has stored the
\* message it returns and has offered exactly one event carrying it to every
\* subscription registered for the message's channel; subscriptions of other
\* channels get nothing; a failed one offers nothing to anyone.
C16_PersistThenBroadcast ==
    [][/\ (Creates \/ Edits) =>
            /\ \E n \in DOMAIN messages' : messages'[n] = reply'.Message
            /\ \A streamID \in Kept(streams) :
                  LET c == cancels[streamID].ChannelID
                  IN  streams'[c][streamID] =
                        IF SameChannel(c, reply'.Message.ChannelID)
                        THEN Append(streams[c][streamID], Announced)
                        ELSE streams[c][streamID]
       /\ WriteFails => streams' = streams /\ published' = published]_vars

\* C17 (as stated): a CreateMessage or EditMessage that succeeds has stored
\* and returned its message however full the streams are; a subscriber of the
\* message's channel whose buffer holds 32 events misses the event, and every
\* other subscriber of that channel has it appended to its buffer.
C17_NonBlockingFanout ==
    [][(Creates \/ Edits) =>
            /\ \E n \in DOMAIN messages' : messages'[n] = reply'.Message
            /\ \A streamID \in Kept(streams) :
                  LET c == cancels[streamID].ChannelID
                  IN  SameChannel(c, reply'.Message.ChannelID) =>
                        streams'[c][streamID] =
                            IF Len(streams[c][streamID]) = 32
                            THEN streams[c][streamID]
                            ELSE Append(streams[c][streamID], Announced)]_vars

\* The limit the claim gives: the requested one if it lies in 1..100, else 100.
L(limit) == IF limit \in 1..100 THEN limit ELSE 100

\* The stored messages of the channel an id names, in creation order.
OfChannel(channelID) ==
    SelectSeq(messages, LAMBDA message : SameChannel(message.ChannelID, channelID))

\* The last count elements of a sequence.
Latest(seq, count) ==
    IF count >= Len(seq) THEN seq ELSE SubSeq(seq, Len(seq) - count + 1, Len(seq))

\* C19 (as stated): a successful ListMessages returns the newest min(L, n) of
\* the n stored messages of the requested channel, oldest first; so a message
\* just created on the channel is in the next listing of that channel.
C19_ListNewest ==
    [][last'.op = "ListMessages" /\ last'.status = 200 =>
          \A token \in DOMAIN OpenedSessions, channelID \in TextChannelIDs,
             limit \in Limits :
                ListMessages(token, channelID, limit) =>
                    /\ reply'.Messages = Latest(OfChannel(channelID), L(limit))
                    /\ (last.op = "CreateMessage" /\ last.status = 200
                         /\ SameChannel(reply.Message.ChannelID, channelID)) =>
                            \E n \in DOMAIN reply'.Messages :
                                reply'.Messages[n] = reply.Message]_vars

MessageOps == {"ListMessages", "CreateMessage", "EditMessage", "SubscribeChannelEvents"}
VoiceChannelOps == {"BeginVoiceJoin", "TouchVoicePresence", "GetVoiceChannelState"}
VoiceOps == VoiceChannelOps \cup {"LeaveVoiceChannel"}

\* C12: a message or voice operation called with a token that is missing,
\* unknown or expired is refused for its session, whatever channel it names,
\* and leaves the messages, the presence rows and the subscriptions as they
\* were and broadcasts no event.
C12_SessionGate ==
    [][(last'.op \in MessageOps \cup VoiceOps /\ last'.token \notin Unexpired) =>
          /\ last'.status = 401
          /\ last'.code = IF last'.token = 0 THEN "missing_session_token"
                                            ELSE "invalid_session_token"
          /\ reply' = NoReply
          /\ UNCHANGED <<messages, voice, streams, nextStream, cancels, closes,
                         published>>]_vars

\* A call with the expired token was refused for its session, on a server
\* that holds a message, a presence row and a subscription with an event in
\* its buffer.
C12_Witness ==
    /\ last.op = "TouchVoicePresence" /\ last.token = 2
    /\ last.code = "invalid_session_token"
    /\ 2 \notin DOMAIN sessions
    /\ messages # << >>
    /\ "K1" \in DOMAIN voice
    /\ \E c \in DOMAIN streams : \E streamID \in DOMAIN streams[c] :
            streams[c][streamID] # << >>

\* The call of an operation on a channel id that a step may have been.
CallOn(op, token, channelID) ==
    CASE op = "ListMessages" -> ListMessages(token, channelID, 1)
      [] op = "CreateMessage" -> CreateMessage(token, channelID, Hello)
      [] op = "EditMessage" -> EditMessage(token, channelID, 1, Edited)
      [] op = "SubscribeChannelEvents" -> SubscribeChannelEvents(token, channelID)
      [] op = "BeginVoiceJoin" -> BeginVoiceJoin(token, channelID)
      [] op = "TouchVoicePresence" ->
            \E update \in Updates : TouchVoicePresence(token, channelID, update)
      [] op = "GetVoiceChannelState" -> GetVoiceChannelState(token, channelID)

\* The error code expected for a channel id on an operation that wants a
\* channel of the given type, "ok" when the channel is in order; blankCode is
\* the code expected for an id that is blank.
Expected(channelID, type, blankCode) ==
    LET configured == {n \in DOMAIN serverCfg.Channels :
                          serverCfg.Channels[n].ID = channelID.text}
    IN  IF channelID.size = 0 THEN blankCode
        ELSE IF configured = {} THEN "channel_not_found"
        ELSE IF \A n \in configured : serverCfg.Channels[n].Type # type
        THEN "invalid_channel_type"
        ELSE "ok"

NothingChanged ==
    UNCHANGED <<messages, voice, streams, nextStream, cancels, closes, published>>

ChannelValidation(blankCode) ==
    LET type == IF last'.op \in MessageOps THEN "text" ELSE "voice"
    IN  \A channelID \in ChannelIDs :
            (Expected(channelID, type, blankCode) # "ok"
                /\ CallOn(last'.op, last'.token, channelID)) =>
                    /\ last'.code = Expected(channelID, type, blankCode)
                    /\ NothingChanged

\* A step of an operation that takes a channel id, made with a good token.
OnChannel ==
    last'.op \in MessageOps \cup VoiceChannelOps /\ last'.token \in Unexpired

\* C20 (as stated): with a valid session, a message call on a channel id that
\* is not configured fails with 'channel_not_found' and on a configured
\* channel that is not a text channel with 'invalid_channel_type'; likewise
\* for voice join, touch and getState and voice channels; nothing is created
\* or changed by the failing call.
C20_AsStated ==
    [][OnChannel => ChannelValidation("channel_not_found")]_vars

\* C20 (amended): as above for every id that is not blank; an id that is
\* empty or white space only fails with 'invalid_channel'.
C20_ChannelValidation ==
    [][OnChannel => ChannelValidation("invalid_channel")]_vars

\* A join of the text channel was refused for the channel's type although the
\* session was good, on a server that holds a message and a presence row.
C20_Witness ==
    /\ last.op = "BeginVoiceJoin" /\ last.token = 1
    /\ last.code = "invalid_channel_type"
    /\ messages # << >>
    /\ "K1" \in DOMAIN voice

----------------------------------------------------------------------------
\* Voice presence properties.

\* A step in which a voice operation was called.
VoiceCall == last'.op \in VoiceOps /\ UNCHANGED clock

\* The keys of the rows last seen more than TTL + lag ago.
StaleRows(rows) ==
    {k \in DOMAIN rows :
        rows[k].LastSeenAt < now - (voicePresenceTTL + voicePresenceMaxLag)}

\* No row that was stale before the step is in the table after it, in
\* whatever channel: it is gone, or it is the caller's and was written anew.
Swept ==
    \A k \in StaleRows(voice) :
        \/ k \notin DOMAIN voice'
        \/ voice'[k].JoinedAt = now /\ voice'[k].LastSeenAt = now

\* The participants returned are those of the channel asked for, and none
\* of them was last seen more than TTL + lag ago.
FreshParticipants ==
    \A n \in DOMAIN reply'.Participants :
        /\ reply'.Participants[n].LastSeenAt
              >= now - (voicePresenceTTL + voicePresenceMaxLag)
        /\ reply'.Participants[n].PublicKey \notin StaleRows(voice)

\* C21 as stated: every voice operation, beginJoin, touch, leave or
\* getState, sweeps the rows last seen more than TTL + lag ago out of every
\* channel before anything else.
C21_AsStated == [][VoiceCall => Swept]_vars

\* C21: every voice operation that passes its session and channel checks
\* sweeps the rows last seen more than TTL + lag (35 s) ago out of every
\* channel before it writes or reads, so that a row not touched within
\* TTL + lag is not among the participants GetVoiceChannelState returns;
\* an operation that is refused sweeps nothing.
C21_PresenceTTL ==
    [][VoiceCall =>
          IF last'.status = 200
          THEN Swept /\ StaleRows(voice') = {} /\ FreshParticipants
          ELSE UNCHANGED voice]_vars

\* K1 asks for the state of a channel 36 seconds after the server opened and
\* 35 seconds after its own last touch: it is listed, alone in the table
\* with the second rowid the table handed out.
C21_Witness ==
    /\ last.op = "GetVoiceChannelState" /\ last.status = 200 /\ last.token = 1
    /\ now = 1 + 1 + voicePresenceTTL + voicePresenceMaxLag
    /\ DOMAIN voice = {"K1"}
    /\ voice["K1"].Rowid = 2
    /\ voice["K1"].LastSeenAt = now - (voicePresenceTTL + voicePresenceMaxLag)
    /\ Len(reply.Participants) = 1
    /\ reply.Participants[1].PublicKey = "K1"

\* The client the step's call was made for.
Caller == SessionIdentity(last'.token).PublicKey

\* A step in which a client's join or touch was accepted.
Written ==
    /\ VoiceCall
    /\ last'.op \in {"BeginVoiceJoin", "TouchVoicePresence"}
    /\ last'.status = 200

\* The client is among the participants GetVoiceChannelState returns for the
\* channel from a table of these rows.
Listed(rows, channelID, publicKey) ==
    \E n \in DOMAIN Participants(cleanupVoicePresenceLocked(rows),
                         {k \in DOMAIN cleanupVoicePresenceLocked(rows) :
                             rows[k].ChannelID = channelID}) :
        Participants(cleanupVoicePresenceLocked(rows),
            {k \in DOMAIN cleanupVoicePresenceLocked(rows) :
                rows[k].ChannelID = channelID})[n].PublicKey = publicKey

\* C22: a client that is present in voice channel A and joins or touches
\* voice channel B is afterwards in the state of channel B and no longer in
\* the state of channel A (there being one row per client key at most).
C22_OneChannelPerClient ==
    [][(/\ Written
        /\ Caller \in DOMAIN voice
        /\ ~SameChannel(voice[Caller].ChannelID, voice'[Caller].ChannelID)) =>
          /\ Listed(voice', TrimSpace(voice'[Caller].ChannelID), Caller)
          /\ ~Listed(voice', TrimSpace(voice[Caller].ChannelID), Caller)]_vars

\* C23: a join or touch by a client that already has a row in the same
\* channel leaves the row's joinedAt as it was and sets lastSeenAt to the time
\* of the call; a join or touch that changes the client's channel sets
\* joinedAt to the time of the call.
C23_JoinedAt ==
    [][(Written /\ Caller \in DOMAIN cleanupVoicePresenceLocked(voice)) =>
          /\ voice'[Caller].LastSeenAt = now
          /\ voice'[Caller].JoinedAt =
                IF SameChannel(voice[Caller].ChannelID, voice'[Caller].ChannelID)
                THEN voice[Caller].JoinedAt
                ELSE now]_vars

\* max(0, min(16, x)): the count in 0..16 nearest to x.
Nearest(x) ==
    CHOOSE v \in 0..16 :
        \A w \in 0..16 : (IF v < x THEN x - v ELSE v - x) <= (IF w < x THEN x - w ELSE w - x)

\* The row of the caller holds the update with both counts brought into
\* 0..16 and the flags as they were sent.
Stored(update) ==
    voice'[Caller].Update =
        VoicePresenceUpdate(Nearest(update.AudioStreams), Nearest(update.VideoStreams),
                            update.CameraEnabled, update.ScreenEnabled,
                            update.ScreenAudioEnabled)

CountsInRange ==
    \A k \in DOMAIN voice :
        /\ voice[k].Update.AudioStreams \in 0..16
        /\ voice[k].Update.VideoStreams \in 0..16

\* C24: an accepted TouchVoicePresence stores max(0, min(16, x)) for the
\* audio and for the video count it was given, and every presence row in
\* every reachable state has both counts within 0..16.
C24_StreamCounts ==
    /\ []CountsInRange
    /\ [][\A channelID \in PairChannelIDs, update \in PairUpdates :
             (/\ last'.op = "TouchVoicePresence"
              /\ last'.status = 200
              /\ TouchVoicePresence(last'.token, channelID, update)) =>
                 Stored(update)]_vars

\* K1's touch reported 17 audio and -1 video streams with the camera on: its
\* row holds 16 and 0.
C24_Witness ==
    /\ last.op = "TouchVoicePresence" /\ last.status = 200 /\ last.token = 1
    /\ "K1" \in DOMAIN voice
    /\ voice["K1"].Update = VoicePresenceUpdate(16, 0, TRUE, FALSE, FALSE)

\* C25: LeaveVoiceChannel with a valid session succeeds whether or not the
\* caller has a row, leaves no row of the caller in whatever channel it was,
\* and leaves every row of another client that is not stale exactly as it
\* was.
C25_Leave ==
    [][(VoiceCall /\ last'.op = "LeaveVoiceChannel" /\ last'.token \in Unexpired) =>
          /\ last'.status = 200
          /\ Caller \notin DOMAIN voice'
          /\ \A k \in DOMAIN voice \ (StaleRows(voice) \cup {Caller}) :
                k \in DOMAIN voice' /\ voice'[k] = voice[k]
          /\ DOMAIN voice' \subseteq DOMAIN voice]_vars

\* K1 has left at the instant both clients joined: K2, whose row was the
\* second the table handed out, is still there.
C25_Witness ==
    /\ last.op = "LeaveVoiceChannel" /\ last.status = 200 /\ last.token = 1
    /\ now = 1
    /\ DOMAIN voice = {"K2"}
    /\ voice["K2"].Rowid = 2

\* C26: GetVoiceChannelState for a channel returns every client that joined
\* that channel and is still present in it, each with the counts and flags
\* its own row holds; and a client's join or touch leaves the rows of the
\* other clients as they were.
C26_Independent ==
    /\ [][\A channelID \in PairChannelIDs :
             (/\ last'.op = "GetVoiceChannelState"
              /\ last'.status = 200
              /\ GetVoiceChannelState(last'.token, channelID)) =>
                 \A k \in DOMAIN voice' :
                     SameChannel(voice'[k].ChannelID, channelID) =>
                        \E n \in DOMAIN reply'.Participants :
                            /\ reply'.Participants[n].PublicKey = k
                            /\ reply'.Participants[n].Update = voice'[k].Update]_vars
    /\ [][Written =>
             \A k \in DOMAIN voice \ (StaleRows(voice) \cup {Caller}) :
                 k \in DOMAIN voice' /\ voice'[k] = voice[k]]_vars

----------------------------------------------------------------------------
\* Handshake failures, expiry and restart.

\* Requests that carry every field and name an invite that exists.
Addressed == {req \in FinishRequests : InviteCheck(req).Code \notin
                                          {"invalid_request", "invite_not_found"}}

\* The first precondition of FinishConnect that the request fails, by the
\* name of its error code; "ok" when it fails none.
FailedPrecondition(req) ==
    IF invites[req.InviteID].UsedAt # NULL THEN "invite_used"
    ELSE IF req.ClientPublicKey # invites[req.InviteID].AllowedClientPublicKey
    THEN "client_not_allowed"
    ELSE IF req.InviteID \notin DOMAIN challenges THEN "challenge_missing"
    ELSE IF now > challenges[req.InviteID].ExpiresAt THEN "challenge_expired"
    ELSE IF req.Challenge # challenges[req.InviteID].Challenge THEN "challenge_mismatch"
    ELSE IF req.Signature # Sign(req.ClientPublicKey,
                                 <<req.Challenge, req.InviteID, ServerFingerprint>>)
    THEN "invalid_signature"
    ELSE "ok"

FinishFailureStatus ==
    [invite_used |-> 403, client_not_allowed |-> 403, challenge_missing |-> 401,
     challenge_expired |-> 401, challenge_mismatch |-> 401]

\* The answer FinishConnect has for every request it may be sent now is the
\* code of the first precondition the request fails, with its own status.
CodeByPrecondition ==
    \A req \in Addressed :
        /\ FinishConnectResult(req).Code = FailedPrecondition(req)
        /\ FinishConnectResult(req).Code \in DOMAIN FinishFailureStatus =>
              FinishConnectResult(req).Status =
                  FinishFailureStatus[FinishConnectResult(req).Code]
        /\ FinishConnectResult(req).Code = "invalid_signature" =>
              FinishConnectResult(req).Status =
                  IF decodeSignatureOk(req.Signature) THEN 401 ELSE 400

\* C27: a FinishConnect that fails a precondition returns the code of the
\* first one it fails, each its own: invite_used, client_not_allowed,
\* challenge_missing, challenge_expired, challenge_mismatch,
\* invalid_signature; and a FinishConnect that fails changes no invite,
\* member or session, so that an invite that was unused is unused after it.
C27_DistinctFailures ==
    /\ []CodeByPrecondition
    /\ [][(last'.op = "FinishConnect" /\ last'.code # "ok") =>
             /\ last'.status \in {400, 401, 403, 404}
             /\ last'.token = 0
             /\ UNCHANGED <<invites, members, sessions, minted>>]_vars

\* A client other than the invited one answered the pending challenge of an
\* unused invite and was refused; the invite is still unused.
C27_Witness ==
    /\ last.op = "FinishConnect"
    /\ last.status = 403
    /\ last.code = "client_not_allowed"
    /\ \E i \in DOMAIN challenges :
          invites[i].UsedAt = NULL /\ ~(now > challenges[i].ExpiresAt)

\* The state of an invite in the handshake: Redeemed once used_at is set,
\* Challenged while a challenge is stored for it, Created otherwise.
InviteState(inviteRows, pending, inviteID) ==
    IF inviteRows[inviteID].UsedAt # NULL THEN "Redeemed"
    ELSE IF inviteID \in DOMAIN pending THEN "Challenged"
    ELSE "Created"

\* The moves of an invite between two states of the server.
Move(inviteID) ==
    <<InviteState(invites, challenges, inviteID),
      InviteState(invites', challenges', inviteID)>>

Forward == {<<"Created", "Challenged">>, <<"Challenged", "Redeemed">>}
Stay == {<<"Created", "Created">>, <<"Challenged", "Challenged">>,
         <<"Redeemed", "Redeemed">>}

\* What BeginConnect answers and stores, by the invite it is called for.
BeginOutcome ==
    \A i \in 0..MaxInvites :
        BeginConnect(i) =>
            IF i \notin DOMAIN invites
            THEN /\ last'.code = IF i = 0 THEN "invalid_invite" ELSE "invite_not_found"
                 /\ last'.status = IF i = 0 THEN 400 ELSE 404
                 /\ UNCHANGED challenges
            ELSE IF invites[i].UsedAt # NULL
            THEN /\ last'.status = 403
                 /\ last'.code = "invite_used"
                 /\ UNCHANGED challenges
            ELSE /\ last'.code = "ok"
                 /\ DOMAIN challenges' = DOMAIN challenges \cup {i}
                 /\ challenges'[i].ExpiresAt = now + challengeTTL
                 /\ \A j \in DOMAIN challenges \ {i} : challenges'[j] = challenges[j]

\* A challenge is pending only for an invite that exists and is unused.
PendingForUnused ==
    \A i \in DOMAIN challenges' : i \in DOMAIN invites' /\ invites'[i].UsedAt = NULL

Lapsed ==
    {i \in DOMAIN challenges :
        invites[i].UsedAt = NULL /\ now > challenges[i].ExpiresAt}

\* What the invited client may send for the invite, whatever challenge it
\* answers: its correct signature and every forgery.
ClientRequests(inviteID) ==
    UNION {RequestsFor(inviteID, invites[inviteID].AllowedClientPublicKey, c) :
              c \in Challenges}

\* C29: a challenge expires 2 minutes after BeginConnect issued it.  A
\* FinishConnect of the invited client that arrives after that fails with 401
\* challenge_expired, its signature valid or not, and removes the pending
\* challenge, so that the same request sent again fails with
\* challenge_missing; the invite stays unused, BeginConnect is accepted for it
\* again, and the client's answer to the new challenge is accepted.
C29_ChallengeExpiry ==
    [][/\ \A i \in DOMAIN challenges' :
             challenges'[i].ExpiresAt - challengeTTL \in 0..now
       /\ last'.op = "FinishConnect" =>
             \A i \in Lapsed : \A req \in ClientRequests(i) :
                 FinishConnect(req) =>
                     /\ last'.status = 401
                     /\ last'.code = "challenge_expired"
                     /\ i \notin DOMAIN challenges'
                     /\ UNCHANGED <<invites, members, sessions>>
                     /\ invites'[i].UsedAt = NULL
                     /\ (FinishConnectResult(req).Code = "challenge_missing")'
                     /\ (BeginConnectResult(i) = OK)'
       /\ (last'.op = "BeginConnect" /\ last'.code = "ok") =>
             \A i \in DOMAIN challenges' :
                 (i \notin DOMAIN challenges \/ challenges'[i] # challenges[i]) =>
                     /\ challenges'[i].ExpiresAt = now + challengeTTL
                     /\ (FinishConnectResult(
                            HonestFinishRequest(i, invites[i].AllowedClientPublicKey,
                                challenges[i].Challenge, Blank)) = OK)'
      ]_vars

\* The invited client's answer came after the challenge had expired: it was
\* refused, the invite is unused and has no challenge pending any more.
C29_Witness ==
    /\ last.op = "FinishConnect"
    /\ last.status = 401
    /\ last.code = "challenge_expired"
    /\ \E i \in DOMAIN issued :
          /\ invites[i].UsedAt = NULL
          /\ i \notin DOMAIN challenges
          /\ now > issued[i][Len(issued[i])].ExpiresAt

\* A step in which the server was started again.
Restarted == last'.op = "New" /\ ticks' = ticks + 1

\* The answers of an invited client to the challenges it was given for the
\* invite so far.
AnswersTo(inviteID) ==
    {HonestFinishRequest(inviteID, invites[inviteID].AllowedClientPublicKey,
         issued[inviteID][n].Challenge,
         ClientDisplayName(invites[inviteID].AllowedClientPublicKey)) :
        n \in DOMAIN issued[inviteID]}

\* C30: a restart leaves no pending challenge and no event subscription and
\* leaves invites, sessions, members, messages and voice presence rows as
\* they were.  A FinishConnect that answers a challenge issued before the
\* restart then fails with 401 challenge_missing and leaves the invite
\* unused; BeginConnect is accepted for the invite again, and the client's
\* answer to the new challenge is accepted.
C30_Restart ==
    [][/\ Restarted =>
             /\ challenges' = << >>
             /\ streams' = << >>
             /\ UNCHANGED <<serverCfg, invites, sessions, members, messages, voice>>
             /\ \A i \in DOMAIN invites :
                   invites[i].UsedAt = NULL => (BeginConnectResult(i) = OK)'
       /\ last'.op = "FinishConnect" =>
             \A i \in DOMAIN issued \ DOMAIN challenges : \A req \in AnswersTo(i) :
                 (invites[i].UsedAt = NULL /\ FinishConnect(req)) =>
                     /\ last'.status = 401
                     /\ last'.code = "challenge_missing"
                     /\ UNCHANGED <<invites, members, sessions, challenges>>
                     /\ (BeginConnectResult(i) = OK)'
       /\ (last'.op = "BeginConnect" /\ last'.code = "ok") =>
             \A i \in DOMAIN challenges' :
                 (i \notin DOMAIN challenges \/ challenges'[i] # challenges[i]) =>
                     (FinishConnectResult(
                        HonestFinishRequest(i, invites[i].AllowedClientPublicKey,
                            challenges[i].Challenge,
                            ClientDisplayName(invites[i].AllowedClientPublicKey))) = OK)'
      ]_vars

\* After a restart K2 answered the challenge the run before had given it and
\* was told the challenge is missing; its invite is unused, and K1's session,
\* message and presence row are still there.
C30_Witness ==
    /\ ticks = 1
    /\ last.op = "FinishConnect"
    /\ last.status = 401
    /\ last.code = "challenge_missing"
    /\ 2 \in DOMAIN issued
    /\ nextChallenge = 2
    /\ invites[2].UsedAt = NULL
    /\ challenges = << >>
    /\ 1 \in DOMAIN sessions
    /\ Len(messages) >= 1
    /\ "K1" \in DOMAIN voice

----------------------------------------------------------------------------
\* Replay, redemption and channel references.

\* Whatever invites the server holds, a request of a configured admin for a
\* well-formed client key that carries the admin's signature and a timestamp
\* within the window is accepted.
NoSeenRecord ==
    \A req \in AdminCreateRequests :
        (Authorized(req) /\ req.ClientPublicKey \in ClientKeys) =>
            CreateInviteByAdminClientResult(req) = OK

\* C31: the server keeps no record of the admin signatures it has seen.  A
\* validly signed create-invite request is accepted whatever invites exist
\* while its issuedAt is within 2 minutes of the server's time; accepting it
\* adds an invite with a new id for the request's client key and leaves the
\* invites there were alone, and the very same request is accepted again in
\* the state this leaves.
C31_AdminReplay ==
    /\ []NoSeenRecord
    /\ [][(last'.op = "CreateInviteByAdminClient" /\ last'.status = 200) =>
             \A req \in AdminCreateRequests :
                 CreateInviteByAdminClient(req) =>
                     /\ last'.invite \notin DOMAIN invites
                     /\ invites'[last'.invite].AllowedClientPublicKey
                           = req.ClientPublicKey
                     /\ \A i \in DOMAIN invites : invites'[i] = invites[i]
                     /\ (CreateInviteByAdminClientResult(req) = OK)'
                     /\ (NewInviteID \notin DOMAIN invites)']_vars

\* The admin route has created a second invite for a client key at the
\* instant the first was created, as the same signed request sent twice does.
C31_Witness ==
    /\ last.op = "CreateInviteByAdminClient"
    /\ last.status = 200
    /\ last.invite = 2
    /\ ticks = 0
    /\ invites[1].AllowedClientPublicKey = invites[2].AllowedClientPublicKey
    /\ invites[1].UsedAt = NULL

\* No invite that is marked used has a pending challenge.
NoChallengeForUsed ==
    \A i \in DOMAIN challenges : i \in DOMAIN invites /\ invites[i].UsedAt = NULL

\* C32: no pending challenge outlives redemption.  Between operations an
\* invite that is marked used has no entry in the challenge map: the call that
\* marks it used deletes the entry before it returns, whether or not its later
\* writes succeed, and BeginConnect stores nothing for a used invite.
C32_NoChallengeAfterRedemption ==
    /\ []NoChallengeForUsed
    /\ [][\A i \in DOMAIN invites :
             (invites[i].UsedAt = NULL /\ invites'[i].UsedAt # NULL) =>
                 /\ i \in DOMAIN challenges
                 /\ i \notin DOMAIN challenges'
                 /\ (BeginConnectResult(i).Code = "invite_used")']_vars

\* BeginConnect was refused for an invite that was redeemed with the second
\* challenge issued for it; no challenge is pending for it.
C32_Witness ==
    /\ last.op = "BeginConnect"
    /\ last.code = "invite_used"
    /\ \E i \in DOMAIN minted :
          /\ invites[i].UsedAt # NULL
          /\ Len(issued[i]) = 2
          /\ i \notin DOMAIN challenges
          /\ DOMAIN challenges = {}

\* C33: FinishConnect is all or nothing.  When it returns, either it has
\* changed no invite, member or session, or it has marked one unused invite
\* used, a member row for the invite's bound key exists and the token it
\* returns is a new session of that key.
C33_AllOrNothing ==
    [][last'.op = "FinishConnect" =>
          \/ UNCHANGED <<invites, members, sessions>>
          \/ \E i \in DOMAIN invites :
                /\ invites[i].UsedAt = NULL
                /\ invites'[i].UsedAt # NULL
                /\ \A j \in DOMAIN invites \ {i} : invites'[j] = invites[j]
                /\ invites[i].AllowedClientPublicKey \in DOMAIN members'
                /\ last'.token \in DOMAIN sessions' \ DOMAIN sessions
                /\ sessions'[last'.token].ClientPublicKey
                      = invites[i].AllowedClientPublicKey]_vars

\* The ids of the configured channels of one type, as the configuration
\* spells them.
ConfiguredIDs(type) ==
    {serverCfg.Channels[n].ID :
        n \in {k \in DOMAIN serverCfg.Channels : serverCfg.Channels[k].Type = type}}

\* A stored channel id is the id of a configured channel of the type: the
\* same text with nothing around it.
Refers(channelID, type) == channelID.pad = 0 /\ channelID.text \in ConfiguredIDs(type)

\* C34 (as stated): channel reference integrity.  The channel id of every
\* stored message and every key of the subscription map is the id of a
\* configured text channel, and the channel id of every voice presence row is
\* the id of a configured voice channel, also when the caller's id had white
\* space around it.
C34_ChannelReferences ==
    /\ \A n \in DOMAIN messages : Refers(messages[n].ChannelID, "text")
    /\ \A c \in DOMAIN streams : Refers(c, "text")
    /\ \A k \in DOMAIN voice : Refers(voice[k].ChannelID, "voice")

----------------------------------------------------------------------------
\* Editing.

\* The stored messages a call of EditMessage names.
Named(channelID, messageID) ==
    {n \in DOMAIN messages :
        messages[n].ID = messageID /\ messages[n].ChannelID = channelID}

\* Called by a valid session with acceptable content for an id that no
\* message of the channel has, EditMessage answers 'message_not_found'.
NotFoundAnswer ==
    \A token \in EditTokens, channelID \in EditChannelIDs,
       messageID \in EditMessageIDs, content \in EditContents :
        (/\ Named(channelID, messageID) = {}
         /\ MessageGate(token, channelID) = OK
         /\ ~Rejected(content)) =>
            EditMessageResult(token, channelID, messageID, content)
                = newAPIError(404, "message_not_found")

\* C35: EditMessage changes only the content and updatedAt of the one message
\* that has the id and the channel id it was called with; that message keeps
\* its id, channel id, author and createdAt, no message is added or removed
\* and every other message stays as it was.  Called by a valid session with
\* acceptable content for an id that no message of that channel has, also
\* when a message of another channel has it, it fails with
\* 'message_not_found'; every failing call changes no message and offers
\* nothing to any subscriber.
C35_EditFrame ==
    /\ []NotFoundAnswer
    /\ [][(last'.op = "EditMessage" /\ UNCHANGED clock) =>
             /\ DOMAIN messages' = DOMAIN messages
             /\ last'.status # 200 => NothingWritten
             /\ last'.status = 200 =>
                   /\ \E content \in EditContents :
                         /\ EditMessage(last'.token, reply'.Message.ChannelID,
                                        reply'.Message.ID, content)
                         /\ reply'.Message.ContentMarkdown = Trimmed(content)
                   /\ Cardinality(Named(reply'.Message.ChannelID, reply'.Message.ID)) = 1
                   /\ \A n \in DOMAIN messages :
                         IF n \in Named(reply'.Message.ChannelID, reply'.Message.ID)
                         THEN /\ messages'[n] =
                                    [messages[n] EXCEPT
                                        !.ContentMarkdown = reply'.Message.ContentMarkdown,
                                        !.UpdatedAt = now]
                              /\ messages'[n] = reply'.Message
                         ELSE messages'[n] = messages[n]]_vars

\* Both channels hold a message, the first edited in a later second and the
\* second as it was written; an edit that named an id of one of them was
\* answered 'message_not_found', while a subscriber listens.
C35_Witness ==
    /\ last.op = "EditMessage"
    /\ last.code = "message_not_found"
    /\ Len(messages) = 2
    /\ messages[1].ChannelID = General
    /\ messages[2].ChannelID = Random
    /\ messages[1].UpdatedAt > messages[1].CreatedAt
    /\ messages[2].ContentMarkdown = Hello
    /\ streams # << >>

\* Every stored message can be edited by every session that is valid.
NoAuthorCheck ==
    \A token \in EditTokens, n \in DOMAIN messages :
        authenticateSessionResult(token) = OK =>
            EditMessageResult(token, messages[n].ChannelID, messages[n].ID, Edited) = OK

\* C36: EditMessage does not look at who wrote the message.  Every valid
\* session can edit every stored message, whoever its author is, and a
\* successful edit leaves the author of every message, public key and
\* display name, as it was; the message returned carries the original author.
C36_NoAuthorCheck ==
    /\ []NoAuthorCheck
    /\ [][Edits =>
             /\ \A n \in DOMAIN messages : messages'[n].Author = messages[n].Author
             /\ \E n \in DOMAIN messages :
                   /\ messages[n].ID = reply'.Message.ID
                   /\ reply'.Message.Author = messages[n].Author
                   /\ messages'[n] = reply'.Message]_vars

\* A member has edited a message that another member wrote: the message has
\* the new content and still names its writer.
C36_Witness ==
    /\ last.op = "EditMessage"
    /\ last.status = 200
    /\ reply.Message.ContentMarkdown = Edited
    /\ reply.Message.Author.PublicKey # sessions[last.token].ClientPublicKey
    /\ \E n \in DOMAIN messages :
          /\ messages[n] = reply.Message
          /\ messages[n].Author.DisplayName = members[messages[n].Author.PublicKey]

----------------------------------------------------------------------------
\* Subscriptions.

\* What a subscriber has taken from its stream followed by what is buffered
\* for it.
Delivered(streamID, taken, registry) ==
    taken[streamID].Received \o registry[taken[streamID].ChannelID][streamID]

\* C37 (as stated): per-subscriber event order.  While a subscription is
\* registered, what it has received and has buffered grows only at its end
\* and only by the event of a create or edit on its channel, once, in the
\* step that applies it; the event is left out only when the buffer holds 32
\* events, and no other step changes the sequence.
C37_EventOrder ==
    [][\A streamID \in Kept(streams) \cap Kept(streams') :
          Delivered(streamID, cancels', streams') =
              IF /\ Creates \/ Edits
                 /\ SameChannel(cancels[streamID].ChannelID, reply'.Message.ChannelID)
                 /\ Len(streams[cancels[streamID].ChannelID][streamID]) < StreamCapacity
              THEN Append(Delivered(streamID, cancels, streams), Announced)
              ELSE Delivered(streamID, cancels, streams)]_vars

\* Every registered stream is open and is kept under the channel id of its
\* subscription and under no other, every id in use has been handed out, and
\* no channel id is kept with no stream.
RegistryInvariant ==
    /\ \A c \in DOMAIN streams :
          /\ DOMAIN streams[c] # {}
          /\ \A streamID \in DOMAIN streams[c] :
                /\ streamID \in 1..nextStream
                /\ streamID \in DOMAIN cancels
                /\ cancels[streamID].ChannelID = c
                /\ closes[streamID] = 0
    /\ DOMAIN cancels = 1..nextStream

\* C38: the subscription registry between operations.  Every registered
\* stream is open and no channel id is kept with an empty set; a stream that
\* is closed in a step is out of the registry after it and never comes back;
\* a new subscription gets an id that no subscription had before; and a
\* create or edit offers its event to open streams only.
C38_Registry ==
    /\ []RegistryInvariant
    /\ [][/\ \A streamID \in DOMAIN cancels :
                /\ closes'[streamID] # closes[streamID] =>
                      streamID \in Kept(streams) /\ streamID \notin Kept(streams')
                /\ closes[streamID] > 0 => streamID \notin Kept(streams')
                /\ streamID \in DOMAIN cancels'
          /\ \A streamID \in Kept(streams') \ Kept(streams) :
                /\ streamID \notin DOMAIN cancels
                /\ streamID > nextStream
                /\ nextStream' = streamID
          /\ (Creates \/ Edits) =>
                \A streamID \in Kept(streams) :
                    /\ closes[streamID] = 0
                    /\ streamID \in Kept(streams')]_vars

\* The first subscription was cancelled, its channel id left the registry
\* with it, the second subscription is registered under another spelling and
\* has just been offered the event of a new message.
C38_Witness ==
    /\ last.op = "CreateMessage" /\ last.status = 200
    /\ nextStream = 2
    /\ closes[1] = 1 /\ closes[2] = 0
    /\ cancels[1].ChannelID # cancels[2].ChannelID
    /\ DOMAIN streams = {cancels[2].ChannelID}
    /\ Len(streams[cancels[2].ChannelID][2]) = 1
    /\ cancels[2].Received # << >>

\* A handler that has returned: its deferred calls have run.
Returned(streamID) == cancels[streamID].At = "returned"

\* C39: no subscription outlives its handler.  Whatever made getChannelStream
\* return (a failed upgrade, a failed write of the ready message or of an
\* event, the client going away), its subscription is out of the registry and
\* its stream closed once it has returned, which every handler that starts to
\* return does; an event is buffered only for a handler that has not
\* returned.
C39_NoLeakedSubscriptions ==
    /\ [](\A streamID \in DOMAIN cancels :
             Returned(streamID) =>
                 /\ streamID \notin Kept(streams)
                 /\ closes[streamID] = 1
                 /\ cancels[streamID].Calls = 1)
    /\ [][\A streamID \in Kept(streams) \cap Kept(streams') :
             streams'[cancels[streamID].ChannelID][streamID]
                 # streams[cancels[streamID].ChannelID][streamID]
                     => ~Returned(streamID) /\ ~Returned(streamID)']_vars
    /\ \A streamID \in 1..MaxStreams :
          (streamID \in DOMAIN cancels /\ cancels[streamID].At = "returning")
              ~> (/\ streamID \in DOMAIN cancels
                  /\ Returned(streamID)
                  /\ streamID \notin Kept(streams))

\* Two connections have ended, one before it was upgraded and one after it
\* had written an event, the other event still unwritten; nothing is
\* registered any more, and the message created last was buffered for no one.
C39_Witness ==
    /\ nextStream = 2
    /\ \A streamID \in DOMAIN cancels : Returned(streamID)
    /\ \E streamID \in DOMAIN cancels : cancels[streamID].Received # << >>
    /\ \E streamID \in DOMAIN cancels : cancels[streamID].Received = << >>
    /\ streams = << >>
    /\ last.op = "CreateMessage" /\ last.status = 200
    /\ Len(messages) = 2

\* A subscription is registered from the call that made it until its cancel
\* function is called.
RegisteredUntilCancelled ==
    \A streamID \in DOMAIN cancels :
        streamID \in Kept(streams) <=> cancels[streamID].Calls = 0

====
